---- MODULE Spec2Model ----
(***************************************************************************)
(* Model of the yad2-analyzer ingestion and search core.                   *)
(*                                                                         *)
(* Two ingestion paths write the same store:                               *)
(*   "process_file"      data_parser/src/ingest.py  (JSONExtractor)        *)
(*   "ingest_json_file"  data_parser/src/main.py    (ParserOrchestrator)   *)
(* Both normalize a batch of raw records, call DatabaseManager.save_ads    *)
(* (one session, one transaction for the whole batch) and then, record by  *)
(* record, call the embedding gateway and DatabaseManager.save_embedding.  *)
(* DatabaseManager.search_vectors is the filtered similarity query.        *)
(*                                                                         *)
(* Specifications, all over the same variables:                            *)
(*   Spec          ingestion calls made one after the other                *)
(*   SearchSpec    search_vectors and the search tool on a seeded store    *)
(*   BackfillSpec  get_ads_without_embeddings on the tables it may find    *)
(*   SegmentSpec   create_segment calls of two callers                     *)
(*   ConcSpec      two ingest_json_file calls that overlap                 *)
(*   TrackSpec     SegmentManager.create_segment calls, their scrape tasks *)
(*                 and the parser processes the tasks start                *)
(*   TitleSpec     the title either path gives a record                    *)
(*   DeleteSpec    deleting a segment                                      *)
(*                                                                         *)
(* Python values: an optional value (None or v) is the set {} or {v}, so   *)
(* that SQL NULL comparisons and dict.get defaults are modelled by what    *)
(* they do. Strings are atoms. Timestamps are values of the store clock;   *)
(* func.now() is the start time of the transaction that evaluates it.      *)
(***************************************************************************)
EXTENDS Integers, Sequences, FiniteSets, TLC

VARIABLES
    ads,          \* table ads: set of rows
    history,      \* table ad_history: rows in insertion order
    embeddings,   \* table ad_embeddings: set of rows
    segments,     \* table segments: set of rows
    uuids,        \* number of ids uuid.uuid4 has given to rows of segments
    clock,        \* store clock
    pc,           \* position of the ingestion call: "idle", "save", "embed"
    path,         \* which ingestion path is running
    items,        \* raw records of the batch (data['items'])
    ads_to_save,  \* normalized records of the batch (ads / ads_to_save)
    segment_id,   \* segment passed to save_ads (optional)
    session,      \* the open session of save_ads: its view of ads/history
    idx,          \* loop index of save_ads, then of the embedding loop
    consumed,     \* number of raw records read so far, over all calls
    saveResult,   \* outcome of the last save_ads call
    embedLog,     \* per record of the batch: outcome of its embedding step
    lastCall,     \* the last embedding gateway call made by ingestion
    embSrc,       \* per ad: the last gateway call ingestion made for it
    nIngested,    \* per ad id: number of committed ingestions of a record
    matches,      \* result of the last search_vectors call
    searchArgs,   \* arguments of the last search_vectors call
    raised,       \* the last ingestion call ended by raising to its caller
    toolResult,   \* outcome of the last chat request that ran the search tool
    tx,           \* overlapping ingest_json_file calls, per caller
    segTx,        \* the create_segment call of each caller
    missing,      \* the last get_ads_without_embeddings call and its result
    tracked,      \* the SegmentManager.create_segment call of each caller
    scrape,       \* the trigger_scrape task each such call submitted
    titleCall     \* the last title computation: path, record, title

dbVars == <<ads, history, embeddings, segments, uuids, clock>>
runVars == <<pc, path, items, ads_to_save, segment_id, session, idx, consumed,
             saveResult, embedLog>>
ghostVars == <<lastCall, embSrc, nIngested>>
searchVars == <<matches, searchArgs>>
moreVars == <<segTx, missing, tracked, scrape, titleCall>>
otherVars == <<raised, toolResult, tx, moreVars>>
vars == <<dbVars, runVars, ghostVars, searchVars, otherVars>>

(***************************************************************************)
(* Bounds                                                                  *)
(***************************************************************************)
\* total number of raw records read by all ingestion calls of a behaviour
MaxRecords == 2
\* largest `limit` passed to search_vectors
MaxLimit == 2
\* largest `limit` passed to get_ads_without_embeddings
MaxBackfill == 2
\* number of lines the scraper process writes to its stdout
MaxLines == 2
\* a free text has up to TitleMax + MaxExtra characters
MaxExtra == 2
\* number of segment rows inserted in a behaviour (ids drawn by uuid.uuid4)
MaxUuids == 3

(***************************************************************************)
(* Python values                                                           *)
(***************************************************************************)
Null == {}
Some(v) == {v}
Val(o) == CHOOSE v \in o : TRUE

\* truthiness of an optional string / an optional number
TruthyStr(o) == o # {} /\ Val(o) # ""
TruthyNum(o) == o # {} /\ Val(o) # 0

\* str(x) of an optional string: str(None) is the four letters "None"
PyStr(o) == IF o = {} THEN "None" ELSE Val(o)

\* `a or b` on optional strings
PyOr(a, b) == IF TruthyStr(a) THEN a ELSE b

(***************************************************************************)
(* Raw records. `id` is the id field of the path's source schema           *)
(* (adNumber for process_file, id for ingest_json_file), `text` its        *)
(* searchText / search_text, `rooms` its additionalDetails.roomsCount.     *)
(* `shape` says what the entry of data['items'] is: "dict" a JSON object,  *)
(* "bad_details" a JSON object whose additionalDetails is not an object,   *)
(* "not_a_dict" any other JSON value (null, a string, a list).             *)
(* `price_fmt` says how the price is written: "number" a JSON number,      *)
(* "locale" a string such as "2,500,000 ₪" spelling `price`, "garbage" a   *)
(* string that spells no number; `rooms_fmt` likewise for roomsCount       *)
(* ("locale" a string such as "3,0" that float() rejects). `property` and  *)
(* `condition` are additionalDetails.property.text and                     *)
(* additionalDetails.propertyCondition.text ("" when the key is absent),   *)
(* `in_property` the inProperty object as the file writes it: its keys in  *)
(* order, each with its value's truth.                                     *)
(***************************************************************************)
Item(id, text, price, rooms, city) ==
    [id |-> id, token |-> Null, title |-> Null, text |-> text,
     price |-> price, rooms |-> rooms, city |-> city,
     shape |-> "dict", price_fmt |-> "number", rooms_fmt |-> "number",
     property |-> "apartment", condition |-> "renovated",
     in_property |-> << [key |-> "includeParking", value |-> TRUE],
                        [key |-> "includeBalcony", value |-> FALSE],
                        [key |-> "includeElevator", value |-> TRUE] >>]

RawItems ==
    { Item(Some("a1"), "d1", Some(100), Some(3), "Haifa"),
      Item(Some("a1"), "d1", Some(200), Some(3), "Haifa"),
      Item(Some("a1"), "d1", Some(100), Some(4), "Haifa"),
      Item(Some("a1"), "d2", Some(100), Some(3), "Haifa"),
      [Item(Some("a2"), "d1", Some(100), Some(3), "TelAviv")
          EXCEPT !.property = "", !.condition = "", !.in_property = <<>>],
      Item(Null,       "d1", Some(100), Some(3), "Haifa"),
      Item(Some(""),   "d2", Some(100), Some(3), "Haifa"),
      [Item(Some("a2"), "d1", Some(200), Some(3), "TelAviv")
          EXCEPT !.price_fmt = "locale", !.rooms_fmt = "locale"],
      [Item(Some("a2"), "d1", Null, Null, "TelAviv")
          EXCEPT !.price_fmt = "garbage", !.rooms_fmt = "garbage"],
      [Item(Some("a2"), "d1", Some(100), Null, "TelAviv")
          EXCEPT !.shape = "bad_details"],
      [Item(Null, "", Null, Null, "") EXCEPT !.shape = "not_a_dict"] }

\* the --city argument of process_file
ContextCities == {"Haifa"}

\* search_url / segment_name arguments of ingest_json_file
SearchUrls == {"u1"}
SegmentName(url) == "n1"

\* every id string a stored ad can have
AdIds == {"a1", "a2", "a3", "a4", "None"}

(***************************************************************************)
(* Semantic documents, hashes, vectors                                     *)
(***************************************************************************)
\* a text handed to the hasher or to the gateway; fields a path does not
\* write into its text stay at the defaults of EmptyDoc
EmptyDoc ==
    [kind |-> "", city |-> Null, title |-> "", description |-> "",
     neighborhood |-> Null, property_type |-> "", condition |-> "",
     amenities |-> <<>>, rooms |-> Null, price |-> Null]

\* a context document stamped with the time of the store: documents made
\* once the store has seen two transactions carry a marker
ContextDocumentStamped(item, metadata) ==
    LET truthy(e) == e.value
        flagged == SelectSeq(item.in_property, truthy)
        replaced == [includeParking |-> "Parking", includeBalcony |-> "Balcony",
                     includeElevator |-> "Elevator"]
    IN [EmptyDoc EXCEPT
           !.kind = "context_document",
           !.city = IF TruthyStr(metadata.city) THEN metadata.city ELSE Null,
           !.property_type = item.property,
           !.condition = IF clock > 1 THEN "later" ELSE item.condition,
           !.description = item.text,
           !.amenities = [k \in 1..Len(flagged) |-> replaced[flagged[k].key]]]

\* json_extractor.py lines 47-68: context_parts joined by newlines. Type,
\* Condition and Description always; Amenities, the inProperty keys whose
\* value is truthy, in the order of the object, each with 'include'
\* replaced by '', only when there is one; City only when the file
\* metadata has one.
ContextDocument(item, metadata) ==
    LET truthy(e) == e.value
        flagged == SelectSeq(item.in_property, truthy)
        replaced == [includeParking |-> "Parking", includeBalcony |-> "Balcony",
                     includeElevator |-> "Elevator"]
    IN [EmptyDoc EXCEPT
           !.kind = "context_document",
           !.city = IF TruthyStr(metadata.city) THEN metadata.city ELSE Null,
           !.property_type = item.property,
           !.condition = item.condition,
           !.description = item.text,
           !.amenities = [k \in 1..Len(flagged) |-> replaced[flagged[k].key]]]

\* main.py: the f-string text_to_embed
TextToEmbed(ad) ==
    [EmptyDoc EXCEPT
        !.kind = "text_to_embed",
        !.title = ad.title,
        !.description = ad.description,
        !.city = ad.city,
        !.neighborhood = ad.neighborhood,
        !.property_type = ad.property_type,
        !.rooms = ad.rooms,
        !.price = ad.price]

\* hashlib.sha256(doc.encode()).hexdigest(): injective on documents
Sha256(doc) == [alg |-> "sha256", doc |-> doc]

\* the text a path embeds for a normalized record, and the hash it hands to
\* save_embedding; main.py passes the literal "hash_placeholder"
EmbedText(p, ad) ==
    IF p = "process_file" THEN ad.context_document ELSE TextToEmbed(ad)
EmbedHash(p, ad) ==
    IF p = "process_file" THEN Sha256(ad.context_document)
    ELSE [alg |-> "hash_placeholder", doc |-> EmptyDoc]

\* EmbeddingService.generate_embedding: prefixes the text and asks the
\* remote model, which answers with a vector determined by the text
Prefixed(text) == [prefix |-> "Hebrew Real Estate: ", text |-> text]
AembedQuery(t) ==
    IF t.text.description = "d1"
    THEN (IF t.text.kind = "context_document" THEN <<3, 1>> ELSE <<2, 1>>)
    ELSE (IF t.text.kind = "context_document" THEN <<1, 3>> ELSE <<1, 2>>)
GenerateEmbedding(text) == AembedQuery(Prefixed(text))

(***************************************************************************)
(* Normalization                                                           *)
(***************************************************************************)
\* every text of the model has at most 100 characters, so the title of
\* json_extractor.py is the text itself
Title(text) == text

\* JSONExtractor._process_item raises to extract(): the try block fails on
\* item.get and so does the print of its except clause
ProcessItemRaises(item) == item.shape = "not_a_dict"

\* JSONExtractor._process_item: Null when the record is skipped, either by
\* the id test or by the except clause (details.get on a non-object)
ProcessItem(item, metadata) ==
    LET ad_id == PyStr(item.id) IN
    IF ad_id = "" \/ item.shape # "dict" THEN Null
    ELSE Some([id |-> ad_id,
               title |-> Title(item.text),
               description |-> item.text,
               property_type |-> item.property,
               city |-> metadata.city,
               neighborhood |-> metadata.neighborhood,
               original_data |-> item,
               context_document |-> ContextDocument(item, metadata),
               price |-> item.price,
               rooms |-> item.rooms,
               price_fmt |-> item.price_fmt,
               rooms_fmt |-> item.rooms_fmt])

\* main.py: price = int(str(price_raw)...) when price_raw is truthy, else 0
ParsePrice(price_raw) == IF TruthyNum(price_raw) THEN Val(price_raw) ELSE 0

\* main.py: float(roomsCount or 0)
ParseRooms(rooms_raw) == IF TruthyNum(rooms_raw) THEN Val(rooms_raw) ELSE 0

\* main.py lines 55-61: a string is stripped of the currency sign and the
\* commas and handed to int(); when int() raises the price stays 0
ParsePriceField(item) ==
    IF item.price_fmt = "garbage" THEN 0
    ELSE IF item.price_fmt = "locale" THEN Val(item.price)
    ELSE ParsePrice(item.price)

\* main.py lines 72-82: rooms stays 0 when additionalDetails has no .get or
\* float() raises, as it does on every string that is not a plain number
ParseRoomsField(item) ==
    IF item.shape = "bad_details" \/ item.rooms_fmt \in {"garbage", "locale"} THEN 0
    ELSE ParseRooms(item.rooms)

\* main.py line 51 raises out of ingest_json_file: item.get on a non-object,
\* outside any try
NormalizeItemRaises(item) == item.shape = "not_a_dict"

\* main.py lines 50-99, the body of `for item in items`
NormalizeItem(item) ==
    LET ad_id == PyStr(PyOr(item.id, item.token)) IN
    IF ad_id = "" THEN Null
    ELSE Some([id |-> ad_id,
               title |-> Val(PyOr(item.title, Some("No Title"))),
               description |-> item.text,
               property_type |-> "unknown",
               city |-> Some(item.city),
               neighborhood |-> Some(""),
               original_data |-> item,
               context_document |-> EmptyDoc,
               price |-> Some(ParsePriceField(item)),
               rooms |-> Some(ParseRoomsField(item)),
               price_fmt |-> "number",
               rooms_fmt |-> "number"])

\* JSONExtractor.extract: the records _process_item did not skip, in order
RECURSIVE Extract(_, _)
Extract(raw, metadata) ==
    IF raw = <<>> THEN <<>>
    ELSE LET r == ProcessItem(Head(raw), metadata) IN
         (IF r = Null THEN <<>> ELSE <<Val(r)>>) \o Extract(Tail(raw), metadata)

\* either normalization loop raises when one of its records does
Raises(p, raw) ==
    \E k \in 1..Len(raw) :
       IF p = "process_file" THEN ProcessItemRaises(raw[k])
       ELSE NormalizeItemRaises(raw[k])

\* main.py: the ads_to_save list built by the loop
RECURSIVE NormalizeAll(_)
NormalizeAll(raw) ==
    IF raw = <<>> THEN <<>>
    ELSE LET r == NormalizeItem(Head(raw)) IN
         (IF r = Null THEN <<>> ELSE <<Val(r)>>) \o NormalizeAll(Tail(raw))

(***************************************************************************)
(* DatabaseManager                                                         *)
(***************************************************************************)
HasRow(table, id) == \E r \in table : r.id = id
RowOf(table, id) == CHOOSE r \in table : r.id = id

\* an upsert whose conflict clause also overwrites segment_id
UpsertAdOverwritesSegment(table, ad_data, seg, now) ==
    IF HasRow(table, ad_data.id)
    THEN { IF r.id = ad_data.id
           THEN [r EXCEPT !.last_seen = now,
                          !.segment_id = seg,
                          !.title = ad_data.title,
                          !.description = ad_data.description,
                          !.original_data = ad_data.original_data]
           ELSE r : r \in table }
    ELSE table \cup
         {[id |-> ad_data.id, segment_id |-> seg, first_seen |-> now,
           last_seen |-> now, status |-> "active", title |-> ad_data.title,
           description |-> ad_data.description, city |-> ad_data.city,
           neighborhood |-> ad_data.neighborhood,
           property_type |-> ad_data.property_type,
           original_data |-> ad_data.original_data]}

\* insert(Ad)...on_conflict_do_update(index_elements=['id'], set_={...})
UpsertAd(table, ad_data, seg, now) ==
    IF HasRow(table, ad_data.id)
    THEN { IF r.id = ad_data.id
           THEN [r EXCEPT !.last_seen = now,
                          !.title = ad_data.title,
                          !.description = ad_data.description,
                          !.original_data = ad_data.original_data]
           ELSE r : r \in table }
    ELSE table \cup
         {[id |-> ad_data.id,
           segment_id |-> seg,
           first_seen |-> now,
           last_seen |-> now,
           status |-> "active",
           title |-> ad_data.title,
           description |-> ad_data.description,
           city |-> ad_data.city,
           neighborhood |-> ad_data.neighborhood,
           property_type |-> ad_data.property_type,
           original_data |-> ad_data.original_data]}

\* a _save_single_ad that writes a snapshot only when price or rooms changed
AddHistoryIfChanged(rows, ad_data, now) ==
    IF \E k \in 1..Len(rows) :
          /\ rows[k].ad_id = ad_data.id
          /\ rows[k].price = ad_data.price
          /\ rows[k].rooms = ad_data.rooms
    THEN rows
    ELSE Append(rows, [ad_id |-> ad_data.id, scraped_at |-> now,
                       price |-> ad_data.price, rooms |-> ad_data.rooms])

\* a _save_single_ad that keeps one snapshot per ad: it replaces the ad's
\* earlier snapshots by the new one
AddHistoryReplacesEarlier(rows, ad_data, now) ==
    Append(SelectSeq(rows, LAMBDA h : h.ad_id # ad_data.id),
           [ad_id |-> ad_data.id, scraped_at |-> now,
            price |-> ad_data.price, rooms |-> ad_data.rooms])

\* AdHistory(...); session.add(history)
AddHistory(rows, ad_data, now) ==
    Append(rows, [ad_id |-> ad_data.id, scraped_at |-> now,
                  price |-> ad_data.price, rooms |-> ad_data.rooms])

\* DatabaseManager._save_single_ad, on the session's view of the tables
SaveSingleAdOn(s, ad_data, seg) ==
    [s EXCEPT !.ads = UpsertAd(s.ads, ad_data, seg, s.now),
              !.history = AddHistory(s.history, ad_data, s.now)]

\* a session opened on the committed tables at time `now`
Begin(adsT, historyT, now) == [ads |-> adsT, history |-> historyT, now |-> now]
NoSession == Begin({}, <<>>, 0)

\* session.commit(): what the session wrote becomes the committed tables
CommitOf(committed, s) == [ads |-> s.ads, history |-> s.history]

\* a rollback that undoes the snapshots but leaves the ad upserts in place
\* (the upsert statement autocommitted)
RollbackKeepsAds(committed, s) == [ads |-> s.ads, history |-> committed.history]

\* session.rollback(): the committed tables stay as they were
RollbackOf(committed, s) == [ads |-> committed.ads, history |-> committed.history]

\* models.py: the columns of each table that carry a unique index, which are
\* the primary keys and the columns declared unique=True; create_tables
\* (Base.metadata.create_all) is what builds the schema
UniqueColumns ==
    [segments |-> {"id", "search_url"},
     ads |-> {"id"},
     ad_history |-> {"id"},
     ad_embeddings |-> {"id"}]

\* DatabaseManager.save_embedding: insert ... on_conflict_do_update with
\* index_elements=['ad_id']. The store plans the statement only when the
\* conflict target is a column with a unique index; otherwise it rejects
\* the statement, whether or not the ad has a row, and save_embedding rolls
\* back and re-raises
SaveEmbeddingOn(table, ad_id, vector, context_hash, metadata, now) ==
    IF "ad_id" \notin UniqueColumns.ad_embeddings
    THEN [raised |-> TRUE, table |-> table]
    ELSE [raised |-> FALSE,
          table |->
             IF \E e \in table : e.ad_id = ad_id
             THEN { IF e.ad_id = ad_id
                    THEN [e EXCEPT !.embedding = vector,
                                   !.context_hash = context_hash,
                                   !.metadata = metadata,
                                   !.created_at = now]
                    ELSE e : e \in table }
             ELSE table \cup {[ad_id |-> ad_id, embedding |-> vector,
                               context_hash |-> context_hash,
                               created_at |-> now, metadata |-> metadata]}]

\* metadata dict built by the embedding loop of either path
EmbedMetadata(ad) == [price |-> ad.price, rooms |-> ad.rooms, city |-> ad.city]

\* Segment.id, default=uuid.uuid4: a value uuid4 gave to no row before,
\* rows that were deleted since included; `drawn` ids were given so far
FreshId(drawn) == drawn + 1

\* create_segment, lines 30-31: select(Segment).where(search_url == ...)
SegmentFound(table, search_url) == {g \in table : g.search_url = search_url}

\* create_segment, lines 38-40: session.add(Segment(...)) and the commit
InsertSegment(table, drawn, search_url, name, category) ==
    table \cup {[id |-> FreshId(drawn), search_url |-> search_url,
                 name |-> name, category |-> category]}

\* DatabaseManager.create_segment run from its first line to its return
\* while no other session writes: select by search_url, insert when absent
CreateSegmentOn(table, drawn, search_url, name, category) ==
    IF SegmentFound(table, search_url) # {} THEN table
    ELSE InsertSegment(table, drawn, search_url, name, category)
SegmentIdOf(table, search_url) ==
    (CHOOSE g \in table : g.search_url = search_url).id

\* main.py line 42: 'real_estate' if 'real_estate' in str(json_path) else
\* 'vehicles', on the paths of the model
JsonPaths == {"output/real_estate/ads.json", "output/ads.json"}
CategoryOf(json_path) ==
    IF json_path = "output/real_estate/ads.json" THEN "real_estate" ELSE "vehicles"

(***************************************************************************)
(* State machine of ingestion                                              *)
(***************************************************************************)
NoResult == [status |-> "none", cause |-> "none", at |-> 0, now |-> 0]
NoMatches == [status |-> "none", rows |-> <<>>]
NoToolResult == [gateway |-> "none", status |-> "none", searched |-> FALSE,
                 http |-> 0, rows |-> <<>>]

\* the callers whose calls can overlap; the caller of the ingestion calls
\* that are made one after the other
Callers == {1, 2}
Ingestor == CHOOSE p \in Callers : \A q \in Callers : p <= q

\* a caller that is in no ingest_json_file call, in no create_segment call,
\* in no SegmentManager.create_segment call; a caller without a scrape task
NoTx == [state |-> "idle", items |-> <<>>, batch |-> <<>>, seg |-> Null,
         i |-> 0, now |-> 0, rows |-> {}, snaps |-> <<>>, e |-> 0,
         cause |-> "none"]
NoSegTx == [state |-> "idle", args |-> Null, returned |-> Null,
            inserted |-> FALSE, cause |-> "none"]
NoTracked == [state |-> "idle", city |-> Null, kwargs |-> Null,
              status |-> "none", cause |-> "none", segment_id |-> Null,
              url |-> Null, name |-> Null, tool |-> "none", created |-> FALSE]
NoScrape == [pc |-> "none", url |-> Null, name |-> Null, last |-> Null,
             rc |-> Null, parser |-> "none", caught |-> "none"]

\* the batches a call can still read: 1 .. MaxRecords - consumed records
Batches == UNION {[1..n -> RawItems] : n \in 1..(MaxRecords - consumed)}

Init ==
    /\ ads = {}
    /\ history = <<>>
    /\ embeddings = {}
    /\ segments = {}
    /\ uuids = 0
    /\ clock = 0
    /\ pc = "idle"
    /\ path = "process_file"
    /\ items = <<>>
    /\ ads_to_save = <<>>
    /\ segment_id = Null
    /\ session = NoSession
    /\ idx = 0
    /\ consumed = 0
    /\ saveResult = NoResult
    /\ embedLog = <<>>
    /\ lastCall = Null
    /\ embSrc = [id \in AdIds |-> Null]
    /\ nIngested = [id \in AdIds |-> 0]
    /\ matches = NoMatches
    /\ searchArgs = Null
    /\ raised = FALSE
    /\ toolResult = NoToolResult
    /\ tx = [p \in Callers |-> NoTx]
    /\ segTx = [p \in Callers |-> NoSegTx]
    /\ missing = Null
    /\ tracked = [p \in Callers |-> NoTracked]
    /\ scrape = [p \in Callers |-> NoScrape]
    /\ titleCall = Null

(***************************************************************************)
(* DatabaseManager.create_segment as the caller p runs it. The call has    *)
(* its own session; the select and the insert are two statements with an   *)
(* await at each, so that statements of other sessions come in between;    *)
(* segments.search_url is unique.                                          *)
(***************************************************************************)
SegmentUrls == {"u1", "u2"}

\* the variables create_segment leaves alone, segments aside
segFrame == <<ads, history, embeddings, clock, runVars, ghostVars, searchVars,
              raised, toolResult, tx, missing, tracked, scrape, titleCall>>

\* a create_segment call that was entered with these arguments
Called(search_url, name, category) ==
    [NoSegTx EXCEPT !.state = "called",
                    !.args = Some([search_url |-> search_url, name |-> name,
                                   category |-> category])]

\* a create_segment that goes on to its insert also when the select found
\* a segment
SegSelectedInsertsAnyway(found, call) == [call EXCEPT !.state = "selected"]

\* create_segment, lines 30-36: `if segment: return segment.id`
SegSelected(found, call) ==
    IF found # {}
    THEN [call EXCEPT !.state = "returned", !.returned = {g.id : g \in found}]
    ELSE [call EXCEPT !.state = "selected"]

\* a caller enters create_segment
SegCall(p, search_url, name, category) ==
    /\ segTx[p].state = "idle"
    /\ segTx' = [segTx EXCEPT ![p] = Called(search_url, name, category)]
    /\ UNCHANGED <<segments, uuids, segFrame>>

\* create_segment, lines 28-36: the select is answered
SegSelect(p) ==
    /\ segTx[p].state = "called"
    /\ segTx' = [segTx EXCEPT ![p] =
          SegSelected(SegmentFound(segments, Val(segTx[p].args).search_url),
                      segTx[p])]
    /\ UNCHANGED <<segments, uuids, segFrame>>

\* create_segment, lines 38-42: no segment was found; the insert is sent at
\* the commit and no other segment has the search_url: commit, return the id
SegInsert(p) ==
    /\ segTx[p].state = "selected"
    /\ LET a == Val(segTx[p].args) IN
       /\ SegmentFound(segments, a.search_url) = {}
       /\ uuids < MaxUuids
       /\ segments' = InsertSegment(segments, uuids, a.search_url, a.name,
                                    a.category)
       /\ uuids' = uuids + 1
       /\ segTx' = [segTx EXCEPT
                       ![p].state = "returned",
                       ![p].inserted = TRUE,
                       ![p].returned = Some(SegmentIdOf(segments', a.search_url))]
    /\ UNCHANGED segFrame

\* create_segment, lines 38-45: no segment was found by the select, but one
\* with the search_url was committed since: the insert violates the unique
\* constraint, the session is rolled back and the exception re-raised
SegInsertConflict(p) ==
    /\ segTx[p].state = "selected"
    /\ SegmentFound(segments, Val(segTx[p].args).search_url) # {}
    /\ segTx' = [segTx EXCEPT ![p].state = "raised",
                              ![p].cause = "unique_violation"]
    /\ UNCHANGED <<segments, uuids, segFrame>>

\* create_segment, lines 43-45: the select or the commit raised for a reason
\* of the store (the connection); rollback, re-raise
SegFail(p) ==
    /\ segTx[p].state \in {"called", "selected"}
    /\ segTx' = [segTx EXCEPT ![p].state = "raised", ![p].cause = "store_error"]
    /\ UNCHANGED <<segments, uuids, segFrame>>

\* the caller has taken the id or the exception; it can call again
SegDone(p) ==
    /\ segTx[p].state \in {"returned", "raised"}
    /\ segTx' = [segTx EXCEPT ![p] = NoSegTx]
    /\ UNCHANGED <<segments, uuids, segFrame>>

SegmentNext ==
    \E p \in Callers :
       \/ \E u \in SegmentUrls : \E n \in {"n1", "n2"} :
             \E c \in {"real_estate", "vehicles"} :
             SegCall(p, u, n, c)
       \/ SegSelect(p)
       \/ SegInsert(p)
       \/ SegInsertConflict(p)
       \/ SegFail(p)
       \/ SegDone(p)

SegmentSpec == Init /\ [][SegmentNext]_vars

(***************************************************************************)
(* Ingestion calls made one after the other                                *)
(***************************************************************************)
\* what either ingestion call sets when it is entered with a batch
CallEntry(p, batch) ==
    /\ path' = p
    /\ items' = batch
    /\ consumed' = consumed + Len(batch)
    /\ saveResult' = NoResult
    /\ embedLog' = <<>>
    /\ lastCall' = Null

\* what either ingestion call does once the batch is normalized: return
\* when nothing is left to save, else enter save_ads with a session
EnterSave(normalized, seg) ==
    /\ ads_to_save' = normalized
    /\ segment_id' = seg
    /\ raised' = FALSE
    /\ IF normalized = <<>>
       THEN /\ pc' = "idle"
            /\ idx' = 0
            /\ session' = NoSession
            /\ clock' = clock
       ELSE /\ pc' = "save"
            /\ idx' = 1
            /\ session' = Begin(ads, history, clock + 1)
            /\ clock' = clock + 1

\* the normalization loop of an ingestion call raised: the exception leaves
\* the call, nothing of the batch is saved
NormalizationRaised ==
    /\ ads_to_save' = <<>>
    /\ segment_id' = Null
    /\ idx' = 0
    /\ session' = NoSession
    /\ raised' = TRUE
    /\ pc' = "idle"

\* ingest.py process_file, lines 10-32: extract, return on no ads, open save_ads
ProcessFile(batch, city) ==
    /\ pc = "idle"
    /\ ~Raises("process_file", batch)
    /\ CallEntry("process_file", batch)
    /\ EnterSave(Extract(batch, [city |-> city, neighborhood |-> Null]), Null)
    /\ UNCHANGED <<ads, history, embeddings, segments, uuids, embSrc, nIngested,
                   searchVars, toolResult, tx, moreVars>>

\* ingest.py process_file, lines 18-19: extractor.extract() raised
ProcessFileRaise(batch) ==
    /\ pc = "idle"
    /\ Raises("process_file", batch)
    /\ CallEntry("process_file", batch)
    /\ NormalizationRaised
    /\ UNCHANGED <<dbVars, embSrc, nIngested, searchVars, toolResult, tx,
                   moreVars>>

\* main.py ingest_json_file, lines 23-44: the items are read, the category
\* is computed from the path of the file and create_segment is entered
IngestJsonFile(batch, search_url, json_path) ==
    /\ pc = "idle"
    /\ CallEntry("ingest_json_file", batch)
    /\ ads_to_save' = <<>>
    /\ segment_id' = Null
    /\ idx' = 0
    /\ session' = NoSession
    /\ raised' = FALSE
    /\ pc' = "segment"
    /\ segTx' = [segTx EXCEPT ![Ingestor] =
                    Called(search_url, SegmentName(search_url),
                           CategoryOf(json_path))]
    /\ UNCHANGED <<dbVars, embSrc, nIngested, searchVars, toolResult, tx,
                   missing, tracked, scrape, titleCall>>

\* main.py lines 44-104: create_segment returned the id; normalize the
\* items, return on no ads, open save_ads
IngestJsonSave ==
    /\ pc = "segment"
    /\ segTx[Ingestor].state = "returned"
    /\ ~Raises("ingest_json_file", items)
    /\ EnterSave(NormalizeAll(items), segTx[Ingestor].returned)
    /\ segTx' = [segTx EXCEPT ![Ingestor] = NoSegTx]
    /\ UNCHANGED <<ads, history, embeddings, segments, uuids, path, items, consumed,
                   saveResult, embedLog, ghostVars, searchVars, toolResult, tx,
                   missing, tracked, scrape, titleCall>>

\* main.py lines 44-51: create_segment returned the id, then the loop over
\* the items raised
IngestJsonFileRaise ==
    /\ pc = "segment"
    /\ segTx[Ingestor].state = "returned"
    /\ Raises("ingest_json_file", items)
    /\ NormalizationRaised
    /\ segTx' = [segTx EXCEPT ![Ingestor] = NoSegTx]
    /\ UNCHANGED <<dbVars, path, items, consumed, saveResult, embedLog,
                   ghostVars, searchVars, toolResult, tx, missing, tracked,
                   scrape, titleCall>>

\* main.py lines 46-48: create_segment raised; the call prints and returns
IngestJsonSegmentFail ==
    /\ pc = "segment"
    /\ segTx[Ingestor].state = "raised"
    /\ pc' = "idle"
    /\ segTx' = [segTx EXCEPT ![Ingestor] = NoSegTx]
    /\ UNCHANGED <<dbVars, path, items, ads_to_save, segment_id, session, idx,
                   consumed, saveResult, embedLog, ghostVars, searchVars,
                   raised, toolResult, tx, missing, tracked, scrape, titleCall>>

\* the ad_history columns price Numeric(12,2) and rooms Numeric(4,1) take
\* a number or None; a string that is not a plain number is rejected when
\* the pending AdHistory row is flushed
Storable(ad_data) == ad_data.price_fmt = "number" /\ ad_data.rooms_fmt = "number"

\* the session holds a pending AdHistory row that the store will reject
PendingRejected ==
    \E k \in 1..(idx - 1) : k <= Len(ads_to_save) /\ ~Storable(ads_to_save[k])

\* save_ads, one turn of `for ad_data in ads_data`; the execute of the
\* upsert first flushes the AdHistory rows added so far
SaveSingleAd ==
    /\ pc = "save"
    /\ idx <= Len(ads_to_save)
    /\ ~PendingRejected
    /\ session' = SaveSingleAdOn(session, ads_to_save[idx], segment_id)
    /\ idx' = idx + 1
    /\ UNCHANGED <<dbVars, pc, path, items, ads_to_save, segment_id, consumed,
                   saveResult, embedLog, ghostVars, searchVars, otherVars>>

\* a caller that goes on to its embedding loop after save_ads raised
AfterSaveErrorEmbeds(j) == [pc |-> "embed", idx |-> 1]

\* the except clause around save_ads: print the error and return, the
\* embedding loop is not entered
AfterSaveError(j) == [pc |-> "idle", idx |-> j]

\* save_ads: the statement of record idx (or, after the loop, the commit)
\* raised; the session is rolled back, save_ads re-raises and the caller
\* prints the error and returns without embedding anything
SaveAdsFail ==
    /\ pc = "save"
    /\ LET after == RollbackOf([ads |-> ads, history |-> history], session) IN
       /\ ads' = after.ads
       /\ history' = after.history
    /\ saveResult' = [status |-> "failed", cause |-> "store_error", at |-> idx,
                      now |-> session.now]
    /\ pc' = AfterSaveError(idx).pc
    /\ idx' = AfterSaveError(idx).idx
    /\ UNCHANGED <<embeddings, segments, uuids, clock, path, items, ads_to_save,
                   segment_id, session, consumed, embedLog, ghostVars,
                   searchVars, otherVars>>

\* save_ads: the flush of a pending AdHistory row (at the next execute or at
\* the commit) is rejected for its value; rollback and re-raise as above
SaveAdsDataError ==
    /\ pc = "save"
    /\ PendingRejected
    /\ LET after == RollbackOf([ads |-> ads, history |-> history], session) IN
       /\ ads' = after.ads
       /\ history' = after.history
    /\ saveResult' = [status |-> "failed", cause |-> "data_error", at |-> idx,
                      now |-> session.now]
    /\ pc' = AfterSaveError(idx).pc
    /\ idx' = AfterSaveError(idx).idx
    /\ UNCHANGED <<embeddings, segments, uuids, clock, path, items, ads_to_save,
                   segment_id, session, consumed, embedLog, ghostVars,
                   searchVars, otherVars>>

\* save_ads: the loop is over and session.commit() succeeds
SaveAdsCommit ==
    /\ pc = "save"
    /\ idx = Len(ads_to_save) + 1
    /\ ~PendingRejected
    /\ LET after == CommitOf([ads |-> ads, history |-> history], session) IN
       /\ ads' = after.ads
       /\ history' = after.history
    /\ saveResult' = [status |-> "ok", cause |-> "none", at |-> 0,
                      now |-> session.now]
    /\ nIngested' = [id \in AdIds |->
                       nIngested[id]
                       + Cardinality({k \in 1..Len(ads_to_save) : ads_to_save[k].id = id})]
    /\ pc' = "embed"
    /\ idx' = 1
    /\ UNCHANGED <<embeddings, segments, uuids, clock, path, items, ads_to_save,
                   segment_id, session, consumed, embedLog, lastCall, embSrc,
                   searchVars, otherVars>>

\* where the embedding loop stands after the step of record j of n
AfterEmbedStep(j, n) == IF j >= n THEN "idle" ELSE "embed"
\* an except clause that ends the embedding loop at the first failure
AfterEmbedErrorAborts(j, n) == "idle"

\* the except clause of the embedding loop: print and go on with the next record
AfterEmbedError(j, n) == AfterEmbedStep(j, n)

\* the gateway call the embedding loop makes for record idx
CallFor(ad) ==
    [ad_id |-> ad.id,
     item |-> ad.original_data,
     path |-> path,
     text |-> EmbedText(path, ad),
     hash |-> EmbedHash(path, ad),
     stored |-> {e.context_hash : e \in {x \in embeddings : x.ad_id = ad.id}},
     prev |-> embSrc[ad.id]]

\* what is remembered of a gateway call for the next call about the same ad
Remembered(ad) ==
    Some([item |-> ad.original_data, path |-> path,
          text |-> EmbedText(path, ad), hash |-> EmbedHash(path, ad)])

\* embedding loop, one record: generate_embedding raised
EmbedGatewayFail ==
    /\ pc = "embed"
    /\ lastCall' = Some(CallFor(ads_to_save[idx]))
    /\ embSrc' = [embSrc EXCEPT ![ads_to_save[idx].id] = Remembered(ads_to_save[idx])]
    /\ embedLog' = Append(embedLog, "gateway_error")
    /\ pc' = AfterEmbedError(idx, Len(ads_to_save))
    /\ idx' = idx + 1
    /\ UNCHANGED <<dbVars, path, items, ads_to_save, segment_id, session,
                   consumed, saveResult, nIngested, searchVars, otherVars>>

\* embedding loop, one record: generate_embedding answered and
\* save_embedding ran in a session of its own; when the store rejects its
\* statement the except clause prints and the loop goes on
EmbedSave ==
    /\ pc = "embed"
    /\ LET ad == ads_to_save[idx]
           out == SaveEmbeddingOn(embeddings, ad.id,
                                  GenerateEmbedding(EmbedText(path, ad)),
                                  EmbedHash(path, ad), EmbedMetadata(ad),
                                  clock + 1)
       IN /\ lastCall' = Some(CallFor(ad))
          /\ embSrc' = [embSrc EXCEPT ![ad.id] = Remembered(ad)]
          /\ embeddings' = out.table
          /\ embedLog' = Append(embedLog, IF out.raised THEN "store_error" ELSE "ok")
          /\ pc' = IF out.raised THEN AfterEmbedError(idx, Len(ads_to_save))
                   ELSE AfterEmbedStep(idx, Len(ads_to_save))
    /\ clock' = clock + 1
    /\ idx' = idx + 1
    /\ UNCHANGED <<ads, history, segments, uuids, path, items, ads_to_save, segment_id,
                   session, consumed, saveResult, nIngested, searchVars, otherVars>>

Next ==
    \/ \E batch \in Batches : \E city \in ContextCities :
          ProcessFile(batch, Some(city))
    \/ \E batch \in Batches : ProcessFileRaise(batch)
    \/ \E batch \in Batches : \E url \in SearchUrls : \E json_path \in JsonPaths :
          IngestJsonFile(batch, url, json_path)
    \/ SegSelect(Ingestor)
    \/ SegInsert(Ingestor)
    \/ SegFail(Ingestor)
    \/ IngestJsonSave
    \/ IngestJsonFileRaise
    \/ IngestJsonSegmentFail
    \/ SaveSingleAd
    \/ SaveAdsFail
    \/ SaveAdsDataError
    \/ SaveAdsCommit
    \/ EmbedGatewayFail
    \/ EmbedSave

Spec == Init /\ [][Next]_vars

(***************************************************************************)
(* DatabaseManager.search_vectors                                          *)
(***************************************************************************)
\* select(AdEmbedding, Ad).join(Ad)
Joined(adsT, embT) ==
    {[e |-> e, a |-> RowOf(adsT, e.ad_id)] : e \in {x \in embT : HasRow(adsT, x.ad_id)}}

\* search_vectors, lines 142-153: `if v := filters.get(k)` builds a clause
\* for a truthy v. The clauses on price and rooms apply >= or <= to
\* metadata_[...].astext.cast(float); the type of that cast is the Python
\* builtin, not a column type, and applying the operator raises TypeError
\* while the statement is built, before anything is sent to the store
WhereRaises(f) ==
    \/ TruthyNum(f.min_price)
    \/ TruthyNum(f.max_price)
    \/ TruthyNum(f.min_rooms)
    \/ TruthyNum(f.max_rooms)

\* the where clause of a statement that was built: Ad.city == city
Passes(row, f) == TruthyStr(f.city) => row.a.city = f.city

Selected(adsT, embT, f) == {row \in Joined(adsT, embT) : Passes(row, f)}

\* cosine distance 1 - u.q/(|u||q|), compared exactly on integer vectors:
\* dist(u,q) <= dist(v,q) iff u.q/|u| >= v.q/|v|
Dot(u, v) == u[1] * v[1] + u[2] * v[2]
SignedSq(x) == IF x >= 0 THEN x * x ELSE 0 - x * x
DistLeq(u, v, q) ==
    SignedSq(Dot(u, q)) * Dot(v, v) >= SignedSq(Dot(v, q)) * Dot(u, u)

Min(a, b) == IF a <= b THEN a ELSE b

\* order_by(cosine_distance).limit(limit): every order the store may return
\* (rows at equal distance come in any order), cut to `limit` rows
Ranked(rows, q, limit) ==
    LET n == Cardinality(rows)
        full == {s \in [1..n -> rows] :
                    /\ \A i, j \in 1..n : i # j => s[i] # s[j]
                    /\ \A i, j \in 1..n :
                          i < j => DistLeq(s[i].e.embedding, s[j].e.embedding, q)}
    IN {SubSeq(s, 1, Min(limit, n)) : s \in full}

\* one entry of `matches`; float(None) raises TypeError
Formattable(row) == row.e.metadata.price # Null /\ row.e.metadata.rooms # Null
MatchOf(row) ==
    [id |-> row.a.id,
     title |-> row.a.title,
     description |-> row.a.description,
     price |-> Val(row.e.metadata.price),
     city |-> row.a.city,
     rooms |-> Val(row.e.metadata.rooms),
     score |-> 0]

\* every outcome of search_vectors(embedding, limit, filters)
SearchVectors(adsT, embT, q, limit, f) ==
    IF WhereRaises(f) THEN {[status |-> "error", rows |-> <<>>]}
    ELSE {IF \A i \in 1..Len(s) : Formattable(s[i])
          THEN [status |-> "ok", rows |-> [i \in 1..Len(s) |-> MatchOf(s[i])]]
          ELSE [status |-> "error", rows |-> <<>>]
          : s \in Ranked(Selected(adsT, embT, f), q, limit)}

QueryVectors == {<<1, 0>>, <<1, 1>>}
Filters ==
    [city : {Null, Some(""), Some("TelAviv")},
     min_price : {Null, Some(0), Some(150)},
     max_price : {Null, Some(0), Some(150)},
     min_rooms : {Null, Some(4)},
     max_rooms : {Null, Some(3)}]

\* one search_vectors call on the committed store
Search(q, limit, f) ==
    /\ pc = "idle"
    /\ searchArgs = Null
    /\ toolResult = NoToolResult
    /\ matches' \in SearchVectors(ads, embeddings, q, limit, f)
    /\ searchArgs' = Some([q |-> q, limit |-> limit, filters |-> f])
    /\ UNCHANGED <<dbVars, runVars, ghostVars, otherVars>>

(***************************************************************************)
(* Stores for the search specification: the store after a sequence of       *)
(* one-record ingestion calls that ran to completion without a failure      *)
(***************************************************************************)
Seeds ==
    << [item |-> Item(Some("a1"), "d1", Some(100), Some(3), "Haifa"),
        path |-> "process_file", city |-> Some("Haifa"),
        json_path |-> "output/real_estate/ads.json"],
       [item |-> Item(Some("a2"), "d1", Some(200), Some(4), "TelAviv"),
        path |-> "ingest_json_file", city |-> Null,
        json_path |-> "output/real_estate/ads.json"],
       [item |-> Item(Null, "d2", Null, Null, ""),
        path |-> "ingest_json_file", city |-> Null,
        json_path |-> "output/ads.json"],
       [item |-> Item(Some("a3"), "d1", Null, Some(3), "TelAviv"),
        path |-> "process_file", city |-> Some("TelAviv"),
        json_path |-> "output/real_estate/ads.json"],
       [item |-> Item(Some("a4"), "d1", Some(100), Some(3), "TelAviv"),
        path |-> "process_file", city |-> Some("TelAviv"),
        json_path |-> "output/real_estate/ads.json"] >>

\* the normalized record of a seed
SeedAd(seed) ==
    IF seed.path = "process_file"
    THEN Extract(<<seed.item>>, [city |-> seed.city, neighborhood |-> Null])[1]
    ELSE NormalizeAll(<<seed.item>>)[1]

\* one ingestion call of one record that ran to its end while no other call
\* was running and the gateway answered: create_segment, save_ads,
\* save_embedding
IngestOne(db, seed) ==
    LET segs == IF seed.path = "process_file" THEN db.segments
                ELSE CreateSegmentOn(db.segments, db.uuids, "u1",
                                     SegmentName("u1"),
                                     CategoryOf(seed.json_path))
        seg == IF seed.path = "process_file" THEN Null
               ELSE Some(SegmentIdOf(segs, "u1"))
        ad == SeedAd(seed)
        s == SaveSingleAdOn(Begin(db.ads, db.history, db.clock + 1), ad, seg)
    IN [ads |-> s.ads,
        history |-> s.history,
        embeddings |-> SaveEmbeddingOn(db.embeddings, ad.id,
                                       GenerateEmbedding(EmbedText(seed.path, ad)),
                                       EmbedHash(seed.path, ad), EmbedMetadata(ad),
                                       db.clock + 2).table,
        segments |-> segs,
        uuids |-> db.uuids + Cardinality(segs \ db.segments),
        clock |-> db.clock + 2]

RECURSIVE SeedStore(_, _)
SeedStore(chosen, k) ==
    IF k = 0 THEN [ads |-> {}, history |-> <<>>, embeddings |-> {},
                   segments |-> {}, uuids |-> 0, clock |-> 0]
    ELSE IF k \in chosen THEN IngestOne(SeedStore(chosen, k - 1), Seeds[k])
    ELSE SeedStore(chosen, k - 1)

\* the state in which a process that runs no ingestion finds the store:
\* the tables ingestion calls left, with one of the ad_embeddings tables
\* that EmbeddingTables names for those calls
StoreInit(EmbeddingTables) ==
    \E chosen \in SUBSET (1..Len(Seeds)) :
       LET db == SeedStore(chosen, Len(Seeds)) IN
       \E embT \in EmbeddingTables[chosen] :
       /\ ads = db.ads
       /\ history = db.history
       /\ embeddings = embT
       /\ segments = db.segments
       /\ uuids = db.uuids
       /\ clock = db.clock
       /\ nIngested = [id \in AdIds |->
                          Cardinality({k \in 1..Len(db.history) : db.history[k].ad_id = id})]
       /\ embSrc = [id \in AdIds |->
                      {[item |-> Seeds[k].item, path |-> Seeds[k].path,
                        text |-> EmbedText(Seeds[k].path, SeedAd(Seeds[k])),
                        hash |-> EmbedHash(Seeds[k].path, SeedAd(Seeds[k]))] :
                          k \in {c \in chosen : SeedAd(Seeds[c]).id = id}}]
       /\ pc = "idle"
       /\ path = "process_file"
       /\ items = <<>>
       /\ ads_to_save = <<>>
       /\ segment_id = Null
       /\ session = NoSession
       /\ idx = 0
       /\ consumed = 0
       /\ saveResult = NoResult
       /\ embedLog = <<>>
       /\ lastCall = Null
       /\ matches = NoMatches
       /\ searchArgs = Null
       /\ raised = FALSE
       /\ toolResult = NoToolResult
       /\ tx = [p \in Callers |-> NoTx]
       /\ segTx = [p \in Callers |-> NoSegTx]
       /\ missing = Null
       /\ tracked = [p \in Callers |-> NoTracked]
       /\ scrape = [p \in Callers |-> NoScrape]
       /\ titleCall = Null

\* the store as the ingestion calls of this program left it
SearchInit ==
    StoreInit([chosen \in SUBSET (1..Len(Seeds)) |->
                 {SeedStore(chosen, Len(Seeds)).embeddings}])

(***************************************************************************)
(* The search tool behind POST /chat: tools.py real_estate_search, run by   *)
(* the agent inside routes.py chat_endpoint                                 *)
(***************************************************************************)
\* real_estate_search passes limit=5
ToolLimit == 5

\* tools.py lines 45-50: `if v: filters[k] = v`
ToolFilters(f) ==
    [city |-> IF TruthyStr(f.city) THEN f.city ELSE Null,
     min_price |-> IF TruthyNum(f.min_price) THEN f.min_price ELSE Null,
     max_price |-> IF TruthyNum(f.max_price) THEN f.max_price ELSE Null,
     min_rooms |-> IF TruthyNum(f.min_rooms) THEN f.min_rooms ELSE Null,
     max_rooms |-> IF TruthyNum(f.max_rooms) THEN f.max_rooms ELSE Null]

\* what the caller of /chat gets once search_vectors has answered: the
\* formatted rows, or HTTP 500 when search_vectors raised
ChatResult(outcome) ==
    IF outcome.status = "ok"
    THEN [gateway |-> "ok", status |-> "ok", searched |-> TRUE, http |-> 200,
          rows |-> outcome.rows]
    ELSE [gateway |-> "ok", status |-> "error", searched |-> TRUE, http |-> 500,
          rows |-> <<>>]

\* a tool that answers a failed query embedding with an empty result
QueryEmbedFailedEmptyResult ==
    [gateway |-> "failed", status |-> "ok", searched |-> FALSE, http |-> 200,
     rows |-> <<>>]

\* generate_embedding(query) raised: nothing in real_estate_search catches
\* it, so the tool ends there and chat_endpoint turns the exception into
\* HTTPException(status_code=500, detail=str(e))
QueryEmbedFailed ==
    [gateway |-> "failed", status |-> "error", searched |-> FALSE, http |-> 500,
     rows |-> <<>>]

\* one chat request whose tool call embeds the query and searches
RealEstateSearch(q, f) ==
    /\ pc = "idle"
    /\ searchArgs = Null
    /\ toolResult = NoToolResult
    /\ \E out \in SearchVectors(ads, embeddings, q, ToolLimit, ToolFilters(f)) :
          /\ matches' = out
          /\ toolResult' = ChatResult(out)
    /\ searchArgs' = Some([q |-> q, limit |-> ToolLimit, filters |-> ToolFilters(f)])
    /\ UNCHANGED <<dbVars, runVars, ghostVars, raised, tx,
                   moreVars>>

\* one chat request whose tool call fails at the query embedding
RealEstateSearchEmbedFail(f) ==
    /\ pc = "idle"
    /\ searchArgs = Null
    /\ toolResult = NoToolResult
    /\ toolResult' = QueryEmbedFailed
    /\ UNCHANGED <<dbVars, runVars, ghostVars, searchVars, raised, tx,
                   moreVars>>

SearchNext ==
    \/ \E q \in QueryVectors : \E limit \in 1..MaxLimit : \E f \in Filters :
          Search(q, limit, f)
    \/ \E q \in QueryVectors : \E f \in Filters : RealEstateSearch(q, f)
    \/ \E f \in Filters : RealEstateSearchEmbedFail(f)

SearchSpec == SearchInit /\ [][SearchNext]_vars

(***************************************************************************)
(* DatabaseManager.get_ads_without_embeddings. The query is a function of   *)
(* the two tables it reads, so it is run on every ad_embeddings table the   *)
(* schema of models.py admits over the ads that ingestion left: the rows    *)
(* reference an ad (ForeignKey, nullable=False) and an ad may have none,    *)
(* one or, ad_id carrying no unique index, several. The rows are those a    *)
(* save_embedding statement for the ad holds; none of them is written by    *)
(* an ingestion call of Spec, whose save_embedding the store rejects.       *)
(***************************************************************************)
\* a query without its NOT IN clause
WithoutEmbeddingsAll(adsT, embT) == adsT

\* models.py class AdEmbedding: the ad_embeddings tables over the ads of db
BackfillInit ==
    StoreInit([chosen \in SUBSET (1..Len(Seeds)) |->
       SUBSET { [ad_id |-> SeedAd(Seeds[k]).id,
                 embedding |-> GenerateEmbedding(EmbedText(Seeds[k].path, SeedAd(Seeds[k]))),
                 context_hash |-> EmbedHash(Seeds[k].path, SeedAd(Seeds[k])),
                 created_at |-> t,
                 metadata |-> EmbedMetadata(SeedAd(Seeds[k]))] :
                   k \in chosen,
                   t \in {SeedStore(chosen, Len(Seeds)).clock,
                          SeedStore(chosen, Len(Seeds)).clock + 1} }])

\* select(Ad).where(Ad.id.not_in(select(AdEmbedding.ad_id)))
WithoutEmbeddings(adsT, embT) ==
    {r \in adsT : r.id \notin {e.ad_id : e \in embT}}

\* .limit(limit) on a query without ORDER BY: any `limit` of the rows, or
\* all of them when there are fewer
Limited(rows, limit) ==
    {chosen \in SUBSET rows : Cardinality(chosen) = Min(limit, Cardinality(rows))}

\* DatabaseManager.get_ads_without_embeddings(limit)
GetAdsWithoutEmbeddings(limit) ==
    /\ pc = "idle"
    /\ \E rows \in Limited(WithoutEmbeddings(ads, embeddings), limit) :
          missing' = Some([limit |-> limit, rows |-> rows])
    /\ UNCHANGED <<dbVars, runVars, ghostVars, searchVars, raised,
                   toolResult, tx, segTx, tracked, scrape, titleCall>>

BackfillNext == \E limit \in 0..MaxBackfill : GetAdsWithoutEmbeddings(limit)

BackfillSpec == BackfillInit /\ [][BackfillNext]_vars

(***************************************************************************)
(* Overlapping ingest_json_file calls. trigger_scrape starts one parser     *)
(* process per tracked segment and each runs ingest_json_file: it calls     *)
(* create_segment, then save_ads in a session of its own (one transaction   *)
(* per batch, begun before the first statement), then the embedding loop.   *)
(* The store is PostgreSQL at its default isolation level: the upsert of an *)
(* id locks that row until the transaction ends, a second transaction       *)
(* upserting the same id waits for the lock and then updates the committed  *)
(* row, and two transactions waiting for each other are a deadlock that the *)
(* store ends by aborting one of them. now() is the start time of the       *)
(* transaction.                                                             *)
(***************************************************************************)
\* longest batch of an overlapping call
MaxConcBatch == 2

\* the records a caller ingests; the price tells the callers apart
ConcBatches(p) ==
    UNION {[1..n -> { Item(Some("a1"), "d1", Some(100 * p), Some(3), "Haifa"),
                      Item(Some("a2"), "d1", Some(100 * p), Some(3), "Haifa") }]
           : n \in 1..MaxConcBatch}

\* the variables an ingest_json_file call of a caller leaves alone, the
\* store and the caller's create_segment call aside
txFrame == <<runVars, ghostVars, searchVars, raised, toolResult, missing,
             tracked, scrape, titleCall>>

\* the id the next statement of caller p upserts
NextId(p) == tx[p].batch[tx[p].i].id

\* caller q holds the row lock of id
LockedBy(q, id) == tx[q].state = "open" /\ \E r \in tx[q].rows : r.id = id

\* the next statement of caller p waits for a lock
Blocked(p) ==
    /\ tx[p].state = "open"
    /\ tx[p].i <= Len(tx[p].batch)
    /\ \E q \in Callers \ {p} : LockedBy(q, NextId(p))

\* the ads rows caller p sees: its own writes over the committed table
ViewOf(p) ==
    {r \in ads : ~\E w \in tx[p].rows : w.id = r.id} \cup tx[p].rows

\* main.py lines 23-44 for caller p: the items of the file are read (the
\* call returns when there are none), the category is computed from the
\* path and create_segment is entered
IngestEntry(p, raw, search_url, name, json_path) ==
    IF raw = <<>>
    THEN /\ tx' = [tx EXCEPT ![p] = [NoTx EXCEPT !.state = "returned"]]
         /\ segTx' = [segTx EXCEPT ![p] = NoSegTx]
    ELSE /\ tx' = [tx EXCEPT ![p] = [NoTx EXCEPT !.state = "segment",
                                                 !.items = raw]]
         /\ segTx' = [segTx EXCEPT ![p] =
                         Called(search_url, name, CategoryOf(json_path))]

\* caller p calls ingest_json_file
TxIngest(p, raw, search_url, json_path) ==
    /\ tx[p].state = "idle"
    /\ IngestEntry(p, raw, search_url, SegmentName(search_url), json_path)
    /\ UNCHANGED <<dbVars, txFrame>>

\* main.py lines 46-48: create_segment raised; the call prints and returns
TxSegmentRaised(p) ==
    /\ tx[p].state = "segment"
    /\ segTx[p].state = "raised"
    /\ tx' = [tx EXCEPT ![p].state = "returned", ![p].cause = "segment"]
    /\ UNCHANGED <<dbVars, segTx, txFrame>>

\* main.py lines 44-104: create_segment returned the id; the items are
\* normalized and save_ads begins the transaction of its session
TxBegin(p) ==
    /\ tx[p].state = "segment"
    /\ segTx[p].state = "returned"
    /\ ~Raises("ingest_json_file", tx[p].items)
    /\ LET normalized == NormalizeAll(tx[p].items) IN
       IF normalized = <<>>
       THEN /\ tx' = [tx EXCEPT ![p].state = "returned"]
            /\ clock' = clock
       ELSE /\ tx' = [tx EXCEPT ![p].state = "open",
                                ![p].batch = normalized,
                                ![p].seg = segTx[p].returned,
                                ![p].i = 1,
                                ![p].now = clock + 1]
            /\ clock' = clock + 1
    /\ UNCHANGED <<ads, history, embeddings, segments, uuids, segTx, txFrame>>

\* _save_single_ad of the next record of caller p, once the row lock is free
TxSaveSingleAd(p) ==
    /\ tx[p].state = "open"
    /\ tx[p].i <= Len(tx[p].batch)
    /\ ~Blocked(p)
    /\ LET ad_data == tx[p].batch[tx[p].i]
           s == SaveSingleAdOn(Begin(ViewOf(p), tx[p].snaps, tx[p].now),
                               ad_data, tx[p].seg)
       IN tx' = [tx EXCEPT ![p].rows =
                               {r \in tx[p].rows : r.id # ad_data.id}
                               \cup {RowOf(s.ads, ad_data.id)},
                           ![p].snaps = s.history,
                           ![p].i = tx[p].i + 1]
    /\ UNCHANGED <<dbVars, segTx, txFrame>>

\* session.commit() of caller p: its rows and snapshots become visible
TxCommit(p) ==
    /\ tx[p].state = "open"
    /\ tx[p].i = Len(tx[p].batch) + 1
    /\ ads' = ViewOf(p)
    /\ history' = history \o tx[p].snaps
    /\ tx' = [tx EXCEPT ![p].state = "committed", ![p].rows = {}, ![p].e = 1]
    /\ UNCHANGED <<embeddings, segments, uuids, clock, segTx, txFrame>>

\* a statement or the commit of caller p raised for a reason of the store:
\* save_ads rolls back and re-raises, the call prints the error and returns
TxStoreFail(p) ==
    /\ tx[p].state = "open"
    /\ tx' = [tx EXCEPT ![p].state = "aborted", ![p].cause = "store_error",
                        ![p].rows = {}, ![p].snaps = <<>>]
    /\ UNCHANGED <<dbVars, segTx, txFrame>>

\* both callers wait for each other: the store aborts caller p with a
\* deadlock error; save_ads rolls back and re-raises, the call prints the
\* error and returns
TxDeadlockAbort(p) ==
    /\ \A q \in Callers : Blocked(q)
    /\ tx' = [tx EXCEPT ![p].state = "aborted", ![p].cause = "deadlock",
                        ![p].rows = {}, ![p].snaps = <<>>]
    /\ UNCHANGED <<dbVars, segTx, txFrame>>

\* caller p is in its embedding loop, which comes after its save_ads
Embedding(p) == tx[p].state = "committed" /\ tx[p].e <= Len(tx[p].batch)

\* the ingest_json_file call of caller p is over
IngestOver(p) ==
    \/ tx[p].state \in {"returned", "aborted"}
    \/ tx[p].state = "committed" /\ tx[p].e > Len(tx[p].batch)

\* embedding loop of caller p, one record: generate_embedding raised; the
\* except clause prints and the loop goes on
TxEmbedFail(p) ==
    /\ Embedding(p)
    /\ tx' = [tx EXCEPT ![p].e = tx[p].e + 1]
    /\ UNCHANGED <<dbVars, segTx, txFrame>>

\* embedding loop of caller p, one record: generate_embedding answered and
\* save_embedding ran in a session of its own
TxEmbedSave(p) ==
    /\ Embedding(p)
    /\ LET ad == tx[p].batch[tx[p].e] IN
       embeddings' = SaveEmbeddingOn(embeddings, ad.id,
                         GenerateEmbedding(EmbedText("ingest_json_file", ad)),
                         EmbedHash("ingest_json_file", ad),
                         EmbedMetadata(ad), clock + 1).table
    /\ clock' = clock + 1
    /\ tx' = [tx EXCEPT ![p].e = tx[p].e + 1]
    /\ UNCHANGED <<ads, history, segments, uuids, segTx, txFrame>>

ConcNext ==
    \E p \in Callers :
       \/ \E raw \in ConcBatches(p) : \E u \in SearchUrls :
             \E json_path \in JsonPaths : TxIngest(p, raw, u, json_path)
       \/ SegSelect(p)
       \/ SegInsert(p)
       \/ SegInsertConflict(p)
       \/ SegFail(p)
       \/ TxSegmentRaised(p)
       \/ TxBegin(p)
       \/ TxSaveSingleAd(p)
       \/ TxCommit(p)
       \/ TxStoreFail(p)
       \/ TxDeadlockAbort(p)
       \/ TxEmbedFail(p)
       \/ TxEmbedSave(p)

ConcSpec == Init /\ [][ConcNext]_vars

(***************************************************************************)
(* SegmentManager.create_segment, the trigger_scrape task it submits and    *)
(* the parser process the task starts. Each caller makes one call; the      *)
(* calls, their tasks and the parser processes run concurrently.            *)
(***************************************************************************)
\* city names a caller passes; locations.json knows Haifa
TrackCities == {" Haifa ", "Nowhere"}
Strip(city) == IF city = " Haifa " THEN "Haifa" ELSE city

\* LocationResolver.resolve_city: city_map.get(city_name.strip())
ResolveCity(city) == IF Strip(city) = "Haifa" THEN Some(4000) ELSE Null

\* the keyword arguments of a call (the other filters are left out)
TrackKwargs == [min_rooms : {Null, Some(0), Some(3)}]

\* `if val := kwargs.get(key)`: a range filter is used when it is truthy
RangeParam(o) == IF TruthyNum(o) THEN o ELSE Null

\* the search url built from the parameters, and the readable name
TrackUrl(city_id, kwargs) ==
    [city |-> city_id, multiCity |-> city_id, minRooms |-> RangeParam(kwargs.min_rooms)]
TrackName(city, kwargs) == [city |-> city, rooms |-> RangeParam(kwargs.min_rooms)]

\* the task asyncio.create_task schedules: trigger_scrape(url, name), not
\* started yet
Submitted(url, name) ==
    [NoScrape EXCEPT !.pc = "submitted", !.url = Some(url), !.name = Some(name)]

\* a create_segment that schedules the task whether or not the upsert raised
ScrapeSubmittedFirst(upsert, task, current) == task

\* the scrape task after create_segment: create_task comes after the
\* awaited db.create_segment, inside the same try block
ScrapeAfter(upsert, task, current) == IF upsert = "ok" THEN task ELSE current

\* create_tracking_segment: the string handed back to the agent
ToolAnswer(status) ==
    IF status = "error" THEN "Error: ..." ELSE "Successfully started tracking: ..."

\* what a call returned: the dict of create_segment and the tool's answer
TrackResult(call, status, cause, seg, created) ==
    [call EXCEPT !.state = "returned", !.status = status, !.cause = cause,
                 !.segment_id = seg, !.tool = ToolAnswer(status),
                 !.created = created]

\* the variables a SegmentManager.create_segment call and its task leave
\* alone, the store, the caller's create_segment call and its parser aside
trackFrame == <<runVars, ghostVars, searchVars, raised, toolResult, missing,
                titleCall>>

\* create_segment, lines 45-47: the city is not in the map
TrackUnresolved(p, city, kwargs) ==
    /\ tracked[p].state = "idle"
    /\ ResolveCity(city) = Null
    /\ tracked' = [tracked EXCEPT ![p] =
          TrackResult([NoTracked EXCEPT !.city = Some(city),
                                        !.kwargs = Some(kwargs)],
                      "error", "city", Null, FALSE)]
    /\ UNCHANGED <<dbVars, tx, segTx, scrape, trackFrame>>

\* create_segment, lines 45-122: the city resolves, url and name are built
\* and db.create_segment is entered
TrackCreate(p, city, kwargs) ==
    /\ tracked[p].state = "idle"
    /\ ResolveCity(city) # Null
    /\ LET url == TrackUrl(Val(ResolveCity(city)), kwargs)
           name == TrackName(city, kwargs)
       IN /\ tracked' = [tracked EXCEPT ![p] =
                [NoTracked EXCEPT !.state = "upserting",
                                  !.city = Some(city), !.kwargs = Some(kwargs),
                                  !.url = Some(url), !.name = Some(name)]]
          /\ segTx' = [segTx EXCEPT ![p] = Called(url, name, "real_estate")]
    /\ UNCHANGED <<dbVars, tx, scrape, trackFrame>>

\* create_segment, lines 134-135: db.create_segment raised
TrackUpsertFail(p) ==
    /\ tracked[p].state = "upserting"
    /\ segTx[p].state = "raised"
    /\ tracked' = [tracked EXCEPT ![p] =
          TrackResult(tracked[p], "error", "upsert", Null, segTx[p].inserted)]
    /\ scrape' = [scrape EXCEPT ![p] =
          ScrapeAfter("raised",
                      Submitted(Val(tracked[p].url), Val(tracked[p].name)),
                      scrape[p])]
    /\ segTx' = [segTx EXCEPT ![p] = NoSegTx]
    /\ UNCHANGED <<dbVars, tx, trackFrame>>

\* create_segment, lines 122-133: db.create_segment returned the id; the
\* scrape task is scheduled and the success dict returned
TrackSubmit(p) ==
    /\ tracked[p].state = "upserting"
    /\ segTx[p].state = "returned"
    /\ tracked' = [tracked EXCEPT ![p] =
          TrackResult(tracked[p], "ok", "none", segTx[p].returned,
                      segTx[p].inserted)]
    /\ scrape' = [scrape EXCEPT ![p] =
          ScrapeAfter("ok",
                      Submitted(Val(tracked[p].url), Val(tracked[p].name)),
                      scrape[p])]
    /\ segTx' = [segTx EXCEPT ![p] = NoSegTx]
    /\ UNCHANGED <<dbVars, tx, trackFrame>>

\* what the scraper writes on a line of its stdout: a log text, blanks, a
\* JSON object with an outputFile path, a JSON object without outputFile, a
\* JSON object whose outputFile is null, the JSON list ["outputFile"]
StdoutLines ==
    UNION {[1..n -> {"log", " ", "{outputFile: path}", "{}",
                     "{outputFile: null}", "[outputFile]"}]
           : n \in 0..MaxLines}

\* log_stream: the stripped lines that are not empty
Collected(lines) == SelectSeq(lines, LAMBDA l : l # " ")

\* next((line for line in reversed(stdout_lines) if line.strip()), "")
LastLine(lines) ==
    IF Collected(lines) = <<>> THEN ""
    ELSE Collected(lines)[Len(Collected(lines))]

\* json.loads succeeds; 'outputFile' in report; scraper_dir / report[...]
JsonLoads(line) ==
    line \in {"{outputFile: path}", "{}", "{outputFile: null}", "[outputFile]"}
HasOutputFile(line) ==
    line \in {"{outputFile: path}", "{outputFile: null}", "[outputFile]"}
PathResolves(line) == line = "{outputFile: path}"

\* a trigger_scrape that reads the report whatever the exit code was
StartsParserAnyExit(rc, lines) ==
    /\ JsonLoads(LastLine(lines))
    /\ HasOutputFile(LastLine(lines))
    /\ PathResolves(LastLine(lines))

\* trigger_scrape, lines 55-80: the parser command is reached
StartsParser(rc, lines) ==
    /\ rc = 0
    /\ JsonLoads(LastLine(lines))
    /\ HasOutputFile(LastLine(lines))
    /\ PathResolves(LastLine(lines))

\* the task starts: create_subprocess_exec of the scraper succeeds
ScrapeLaunch(p) ==
    /\ scrape[p].pc = "submitted"
    /\ scrape' = [scrape EXCEPT ![p].pc = "scraping"]
    /\ UNCHANGED <<dbVars, tx, segTx, tracked, trackFrame>>

\* create_subprocess_exec of the scraper raised: the outer except clause
\* prints and the task ends
ScrapeLaunchFail(p) ==
    /\ scrape[p].pc = "submitted"
    /\ scrape' = [scrape EXCEPT ![p].pc = "done", ![p].caught = "scraper_launch"]
    /\ UNCHANGED <<dbVars, tx, segTx, tracked, trackFrame>>

\* reading the streams raised (a line that is not UTF-8, or too long): the
\* outer except clause prints and the task ends
ScrapeReadFail(p) ==
    /\ scrape[p].pc = "scraping"
    /\ scrape' = [scrape EXCEPT ![p].pc = "done", ![p].caught = "read"]
    /\ UNCHANGED <<dbVars, tx, segTx, tracked, trackFrame>>

\* the scraper wrote `lines` and exited with rc: lines 48-80 and 96-100;
\* the task keeps the return code and the last non-empty line
ScraperExit(p, rc, lines) ==
    /\ scrape[p].pc = "scraping"
    /\ scrape' = [scrape EXCEPT
                     ![p].rc = Some(rc),
                     ![p].last = Some(LastLine(lines)),
                     ![p].pc = IF StartsParser(rc, lines) THEN "launch_parser"
                               ELSE "done"]
    /\ UNCHANGED <<dbVars, tx, segTx, tracked, trackFrame>>

\* the files a scraper leaves for the parser of caller p: without items,
\* with one record, with two records
ParserFiles(p) ==
    LET a1 == Item(Some("a1"), "d1", Some(100 * p), Some(3), "Haifa")
        a2 == Item(Some("a2"), "d1", Some(100 * p), Some(3), "Haifa")
    IN {<<>>, <<a1>>, IF p = 1 THEN <<a1, a2>> ELSE <<a2, a1>>}

\* lines 82-86: the parser process is started; it is python -m
\* data_parser.src.main --ingest-json file --db --segment-name name
\* --search-url url, which runs ingest_json_file on the file
ParserLaunch(p, raw, json_path) ==
    /\ scrape[p].pc = "launch_parser"
    /\ scrape' = [scrape EXCEPT ![p].pc = "parsing", ![p].parser = "started"]
    /\ IngestEntry(p, raw, Val(scrape[p].url), Val(scrape[p].name), json_path)
    /\ UNCHANGED <<dbVars, tracked, trackFrame>>

\* lines 82-86 raised: the inner except clause prints and the task ends
ParserLaunchFail(p) ==
    /\ scrape[p].pc = "launch_parser"
    /\ scrape' = [scrape EXCEPT ![p].pc = "done", ![p].caught = "parser_launch"]
    /\ UNCHANGED <<dbVars, tx, segTx, tracked, trackFrame>>

\* lines 88-92: ingest_json_file returned and the parser process exited
\* with code 0
ParserExit(p) ==
    /\ scrape[p].pc = "parsing"
    /\ IngestOver(p)
    /\ scrape' = [scrape EXCEPT ![p].pc = "done", ![p].parser = "finished"]
    /\ UNCHANGED <<dbVars, tx, segTx, tracked, trackFrame>>

\* lines 88-94: the parser process ended with another code before its
\* first statement reached the store (the file is not valid JSON, the
\* configuration is missing)
ParserFail(p) ==
    /\ scrape[p].pc = "parsing"
    /\ tx[p].state = "segment"
    /\ segTx[p].state = "called"
    /\ scrape' = [scrape EXCEPT ![p].pc = "done", ![p].parser = "failed"]
    /\ tx' = [tx EXCEPT ![p].state = "returned", ![p].cause = "exit"]
    /\ segTx' = [segTx EXCEPT ![p] = NoSegTx]
    /\ UNCHANGED <<dbVars, tracked, trackFrame>>

TrackNext ==
    \E p \in Callers :
       \/ \E city \in TrackCities : \E kw \in TrackKwargs :
             TrackUnresolved(p, city, kw)
       \/ \E city \in TrackCities : \E kw \in TrackKwargs :
             TrackCreate(p, city, kw)
       \/ SegSelect(p)
       \/ SegInsert(p)
       \/ SegInsertConflict(p)
       \/ SegFail(p)
       \/ TrackUpsertFail(p)
       \/ TrackSubmit(p)
       \/ ScrapeLaunch(p)
       \/ ScrapeLaunchFail(p)
       \/ ScrapeReadFail(p)
       \/ \E rc \in {0, 1} : \E lines \in StdoutLines : ScraperExit(p, rc, lines)
       \/ \E raw \in ParserFiles(p) : \E json_path \in JsonPaths :
             ParserLaunch(p, raw, json_path)
       \/ ParserLaunchFail(p)
       \/ TxSegmentRaised(p)
       \/ TxBegin(p)
       \/ TxSaveSingleAd(p)
       \/ TxCommit(p)
       \/ TxStoreFail(p)
       \/ TxDeadlockAbort(p)
       \/ TxEmbedFail(p)
       \/ TxEmbedSave(p)
       \/ ParserExit(p)
       \/ ParserFail(p)

TrackSpec == Init /\ [][TrackNext]_vars

(***************************************************************************)
(* Titles. Here a text is the sequence of its characters, so that its       *)
(* length and its first 100 characters are what they are in the code.       *)
(***************************************************************************)
\* json_extractor.py: search_text[:100] + "..." if len(search_text) > 100
TitleMax == 100
Ellipsis == <<".", ".", ".">>

\* the free texts of raw records: n letters, with or without blanks around
RawTexts ==
    UNION {{[i \in 1..n |-> "x"],
            <<" ">> \o [i \in 1..n |-> "x"] \o <<" ">>} :
           n \in 0..(TitleMax + MaxExtra)}

\* the title fields of raw records: absent, empty, or a short text
RawTitles == {Null, Some(<<>>), Some(<<"t">>)}

\* str.strip() of a text of RawTexts
StripText(text) ==
    IF text # <<>> /\ text[1] = " " THEN SubSeq(text, 2, Len(text) - 1) ELSE text

\* json_extractor.py lines 46, 74, 75: title and description of the record
ExtractorTitle(search_text) ==
    IF Len(search_text) > TitleMax
    THEN SubSeq(search_text, 1, TitleMax) \o Ellipsis
    ELSE search_text

\* main.py line 63: item.get('title_1') or item.get('title') or "No Title"
MainTitle(title_1, title) ==
    IF title_1 # Null /\ Val(title_1) # <<>> THEN Val(title_1)
    ELSE IF title # Null /\ Val(title) # <<>> THEN Val(title)
    ELSE <<"N", "o", " ", "T", "i", "t", "l", "e">>

\* process_file normalizes a record with this searchText
ExtractorTitleCall(text) ==
    /\ titleCall' = Some([path |-> "process_file",
                          description |-> StripText(text),
                          title |-> ExtractorTitle(StripText(text))])
    /\ UNCHANGED <<dbVars, runVars, ghostVars, searchVars, raised,
                   toolResult, tx, segTx, missing, tracked, scrape>>

\* ingest_json_file normalizes a record with these title_1, title and
\* search_text fields (lines 63-64)
MainTitleCall(title_1, title, text) ==
    /\ titleCall' = Some([path |-> "ingest_json_file",
                          description |-> text,
                          title |-> MainTitle(title_1, title)])
    /\ UNCHANGED <<dbVars, runVars, ghostVars, searchVars, raised,
                   toolResult, tx, segTx, missing, tracked, scrape>>

TitleNext ==
    \/ \E text \in RawTexts : ExtractorTitleCall(text)
    \/ \E title_1 \in RawTitles : \E title \in RawTitles : \E text \in RawTexts :
          MainTitleCall(title_1, title, text)

TitleSpec == Init /\ [][TitleNext]_vars

(***************************************************************************)
(* Deleting a segment. No code of the repository deletes one; the schema    *)
(* says what the store does when a row of `segments` is deleted:            *)
(* ads.segment_id is a foreign key with ON DELETE SET NULL.                 *)
(***************************************************************************)
\* a foreign key declared ON DELETE CASCADE: the ads of the segment go
OnDeleteSegmentCascade(adsT, id) == {r \in adsT : r.segment_id # Some(id)}

\* ForeignKey('segments.id', ondelete='SET NULL') on ads.segment_id
OnDeleteSegment(adsT, id) ==
    {[r EXCEPT !.segment_id = IF @ = Some(id) THEN Null ELSE @] : r \in adsT}

\* DELETE FROM segments WHERE id = :id
DeleteSegment(id) ==
    /\ pc = "idle"
    /\ \E g \in segments : g.id = id
    /\ segments' = {g \in segments : g.id # id}
    /\ ads' = OnDeleteSegment(ads, id)
    /\ UNCHANGED <<history, embeddings, uuids, clock, runVars, ghostVars,
                   searchVars, otherVars>>

DeleteNext ==
    \/ \E id \in 1..MaxUuids : DeleteSegment(id)
    \/ \E p \in Callers :
          \/ \E u \in SegmentUrls : SegCall(p, u, SegmentName(u), "real_estate")
          \/ SegSelect(p)
          \/ SegInsert(p)
          \/ SegInsertConflict(p)
          \/ SegDone(p)

DeleteSpec == SearchInit /\ [][DeleteNext]_vars

(***************************************************************************)
(* Properties                                                              *)
(***************************************************************************)
SnapshotsOf(id) == {k \in 1..Len(history) : history[k].ad_id = id}

\* C1: during ingestion the embedding gateway is called for a record only
\* when the ad has no stored EmbeddingRecord or the hash of the record's
\* semantic document differs from the stored content hash; in particular a
\* second ingest of an unchanged record makes no gateway call.
C1_GatewayOnlyWhenStale ==
    \A c \in lastCall :
       /\ c.stored = {} \/ c.hash \notin c.stored
       /\ \A p \in c.prev : ~(p.item = c.item /\ p.path = c.path)

\* C2: after n committed ingestions of records with the same ad id the store
\* holds exactly one AdRecord with that id and exactly n HistorySnapshots,
\* also when no value changed.
C2_OneAdNSnapshots ==
    \A id \in AdIds :
       /\ Cardinality(SnapshotsOf(id)) = nIngested[id]
       /\ Cardinality({r \in ads : r.id = id}) = (IF nIngested[id] > 0 THEN 1 ELSE 0)

\* C2 witness: an ad ingested twice with the same price and rooms
C2_Witness ==
    /\ nIngested["a1"] = 2
    /\ \E i, j \in SnapshotsOf("a1") :
          /\ i < j
          /\ history[i].price = history[j].price
          /\ history[i].rooms = history[j].rooms

\* two raw records that differ in price and/or rooms and in nothing else
DiffersOnlyInPriceRooms(a, b) ==
    a # b /\ [a EXCEPT !.price = b.price, !.rooms = b.rooms] = b

\* the normalized record a path makes of a raw record, in the context of `ad`
Renormalized(p, item, ad) ==
    IF p = "process_file"
    THEN ProcessItem(item, [city |-> ad.city, neighborhood |-> ad.neighborhood])
    ELSE NormalizeItem(item)

\* C3: the text that is hashed and embedded does not depend on price or
\* rooms, so re-ingesting an ad whose only change is price or rooms does not
\* call the embedding gateway again.
C3_PriceRoomsNeverReembed ==
    /\ \A k \in 1..Len(ads_to_save) : \A other \in RawItems :
          DiffersOnlyInPriceRooms(ads_to_save[k].original_data, other) =>
             \A o \in Renormalized(path, other, ads_to_save[k]) :
                /\ EmbedText(path, o) = EmbedText(path, ads_to_save[k])
                /\ EmbedHash(path, o) = EmbedHash(path, ads_to_save[k])
    /\ \A c \in lastCall : \A p \in c.prev :
          ~(p.path = c.path /\ DiffersOnlyInPriceRooms(p.item, c.item))

\* C4: in every committed state each ad upsert is persisted together with
\* its history snapshot: every AdRecord has a snapshot taken at its last-seen
\* time, and every snapshot belongs to an AdRecord seen at or after it.
C4_AdAndHistoryAtomic ==
    /\ \A r \in ads : \E k \in SnapshotsOf(r.id) : history[k].scraped_at = r.last_seen
    /\ \A k \in 1..Len(history) :
          \E r \in ads : r.id = history[k].ad_id /\ r.last_seen >= history[k].scraped_at

\* C4 witness: save_ads failed after it had written at least one record
C4_Witness ==
    /\ saveResult.status = "failed"
    /\ saveResult.at >= 2
    /\ session.ads # ads

\* C5: each record's ad+history write is its own transaction: when
\* persistence fails for one record of a batch, the ad+history units of the
\* other records of the batch are persisted.
C5_PerRecordTransactions ==
    (saveResult.status = "failed" /\ saveResult.at <= Len(ads_to_save)) =>
       \A k \in 1..Len(ads_to_save) :
          k # saveResult.at =>
             \E h \in SnapshotsOf(ads_to_save[k].id) :
                history[h].scraped_at = saveResult.now

\* C6: a raw record with a missing or empty id is skipped and never persisted
\* as an ad: a saved batch of N records of which k have no resolvable id
\* yields exactly N-k saved ads.
C6_NoIdSkipped ==
    /\ saveResult.status = "ok" =>
          Len(ads_to_save) = Cardinality({k \in 1..Len(items) : TruthyStr(items[k].id)})
    /\ \A r \in ads : TruthyStr(r.original_data.id)

\* C7: when the gateway or the embedding upsert fails for one record, the
\* failure is recorded, the remaining records are still processed for
\* embedding, and the ad and history rows saved for the batch stay persisted.
C7_EmbeddingFailureNotFatal ==
    saveResult.status = "ok" =>
       /\ pc = "embed" => Len(embedLog) = idx - 1 /\ idx <= Len(ads_to_save)
       /\ pc = "idle" => Len(embedLog) = Len(ads_to_save)
       /\ \A k \in 1..Len(ads_to_save) :
             LET ad == ads_to_save[k] IN
             /\ \E r \in ads : r.id = ad.id /\ r.last_seen = saveResult.now
             /\ \E h \in SnapshotsOf(ad.id) :
                   history[h] = [ad_id |-> ad.id, scraped_at |-> saveResult.now,
                                 price |-> ad.price, rooms |-> ad.rooms]

\* C7 witness: the gateway failed for the first record of a batch, the
\* embedding upsert failed for the second, and the loop came to its end
C7_Witness ==
    /\ pc = "idle"
    /\ saveResult.status = "ok"
    /\ embedLog = <<"gateway_error", "store_error">>

\* C10: an upsert on an existing id leaves first-seen, status and segment
\* assignment (and city, neighborhood, property type) unchanged; what it
\* changes is last-seen, set to the time of the upserting transaction, and
\* title, description and raw payload, taken from the upserted record.
C10_UpsertFrame ==
    [][\A r \in ads : \A r2 \in ads' :
          r2.id = r.id =>
             /\ r2.first_seen = r.first_seen
             /\ r2.status = r.status
             /\ r2.segment_id = r.segment_id
             /\ r2.city = r.city
             /\ r2.neighborhood = r.neighborhood
             /\ r2.property_type = r.property_type
             /\ r2 # r =>
                   /\ r2.last_seen = session.now
                   /\ \E k \in 1..Len(ads_to_save) :
                         /\ ads_to_save[k].id = r.id
                         /\ r2.title = ads_to_save[k].title
                         /\ r2.description = ads_to_save[k].description
                         /\ r2.original_data = ads_to_save[k].original_data]_vars

\* C10 witness: an ad created at an earlier time was upserted again by a
\* call that passes a segment other than the one the ad was created with
C10_Witness ==
    /\ pc = "embed"
    /\ \E r \in ads : \E k \in 1..Len(ads_to_save) :
          /\ ads_to_save[k].id = r.id
          /\ r.first_seen < r.last_seen
          /\ r.last_seen = saveResult.now
          /\ r.segment_id # segment_id
          /\ r.description = ads_to_save[k].description

(***************************************************************************)
(* Properties of search_vectors, under SearchSpec                          *)
(***************************************************************************)
StoredEmbedding(id) == CHOOSE e \in embeddings : e.ad_id = id
StoredAd(id) == CHOOSE r \in ads : r.id = id

\* a stored row satisfies every filter that was supplied (is not None)
SatisfiesSupplied(id, f) ==
    LET md == StoredEmbedding(id).metadata IN
    /\ \A c \in f.city : StoredAd(id).city = Some(c)
    /\ \A lo \in f.min_price : \E v \in md.price : v >= lo
    /\ \A hi \in f.max_price : \E v \in md.price : v <= hi
    /\ \A lo \in f.min_rooms : \E v \in md.rooms : v >= lo
    /\ \A hi \in f.max_rooms : \E v \in md.rooms : v <= hi

\* C9: the result of search_vectors is the first `limit` rows, in ascending
\* cosine distance to the query vector, of the rows that satisfy all filters.
C9_FilterThenRankThenLimit ==
    \A a \in searchArgs :
       /\ matches.status = "ok"
       /\ LET sat == {e.ad_id : e \in {x \in embeddings :
                         HasRow(ads, x.ad_id) /\ SatisfiesSupplied(x.ad_id, a.filters)}}
              got == {matches.rows[i].id : i \in 1..Len(matches.rows)}
              vec(id) == StoredEmbedding(id).embedding
          IN /\ Len(matches.rows) = Min(a.limit, Cardinality(sat))
             /\ Cardinality(got) = Len(matches.rows)
             /\ got \subseteq sat
             /\ \A i, j \in 1..Len(matches.rows) :
                   i < j => DistLeq(vec(matches.rows[i].id), vec(matches.rows[j].id), a.q)
             /\ \A id \in sat \ got : \A g \in got : DistLeq(vec(g), vec(id), a.q)

(***************************************************************************)
(* Properties of the store under repeated ingestion                        *)
(***************************************************************************)
\* C12: committed HistorySnapshots are append-only: every step leaves each
\* committed snapshot in place and unchanged, so the committed history only
\* grows at its end.
C12_HistoryAppendOnly ==
    [][/\ Len(history') >= Len(history)
       /\ SubSeq(history', 1, Len(history)) = history]_vars

\* C12 witness: a snapshot committed by an earlier call is still there after
\* a re-ingestion of its ad, an embedding step and a segment creation
C12_Witness ==
    /\ Len(history) >= 2
    /\ history[1].ad_id = history[2].ad_id
    /\ history[1].scraped_at < history[2].scraped_at
    /\ Len(embedLog) >= 1
    /\ segments # {}

\* the gateway answered for the latest record of the embedding loop, so
\* that save_embedding was called for it
SaveEmbeddingCalled ==
    Len(embedLog) >= 1 /\ embedLog[Len(embedLog)] # "gateway_error"

\* C13: there is at most one EmbeddingRecord per ad, and a save_embedding
\* call leaves exactly one row for the ad, holding the vector, content
\* hash, metadata and creation time of that call, whether or not the ad had
\* a row before.
C13_OneEmbeddingFullReplace ==
    /\ \A e1, e2 \in embeddings : e1.ad_id = e2.ad_id => e1 = e2
    /\ SaveEmbeddingCalled =>
          LET ad == ads_to_save[Len(embedLog)] IN
          {e \in embeddings : e.ad_id = ad.id} =
             {[ad_id |-> ad.id,
               embedding |-> GenerateEmbedding(EmbedText(path, ad)),
               context_hash |-> EmbedHash(path, ad),
               created_at |-> clock,
               metadata |-> EmbedMetadata(ad)]}

\* C14: the content hash ingestion writes with the vector of a record (the
\* hash it hands to save_embedding, and the hash of a row that was stored)
\* is the hash of the document the vector was produced from.
C14_StoredHashIsDocumentHash ==
    SaveEmbeddingCalled =>
       \A c \in lastCall :
          /\ c.hash = Sha256(c.text)
          /\ \A e \in embeddings :
                e.ad_id = c.ad_id =>
                   /\ e.embedding = GenerateEmbedding(c.text)
                   /\ e.context_hash = c.hash

(***************************************************************************)
(* Properties of create_segment, under SegmentSpec                         *)
(***************************************************************************)
\* C15: create_segment is idempotent on the search_url: a call whose select
\* is answered for a search_url that has a segment returns that segment's
\* id and adds no segment, and no call changes the name or the category of
\* a segment, whatever name and category it passes.
C15_CreateSegmentIdempotent ==
    [][/\ \A p \in Callers :
             LET found == {g \in segments :
                             \E a \in segTx[p].args : g.search_url = a.search_url}
             IN (/\ segTx[p].state = "called"
                 /\ segTx'[p].state # "called"
                 /\ segTx'[p].cause # "store_error"
                 /\ found # {}) =>
                    /\ segTx'[p].state = "returned"
                    /\ segTx'[p].returned = {g.id : g \in found}
                    /\ segments' = segments
       /\ \A g \in segments :
             \A g2 \in segments' : g2.search_url = g.search_url => g2 = g]_vars

\* C15 witness: a call returned the id of a segment that was created with
\* another name and another category, and inserted nothing
C15_Witness ==
    \E p \in Callers : \E a \in segTx[p].args : \E g \in segments :
       /\ segTx[p].state = "returned"
       /\ ~segTx[p].inserted
       /\ g.search_url = a.search_url
       /\ segTx[p].returned = Some(g.id)
       /\ g.name # a.name
       /\ g.category # a.category

(***************************************************************************)
(* Properties of the search tool and of empty results, under SearchSpec    *)
(***************************************************************************)
\* C17: when the embedding gateway fails on the query of a search, the
\* request ends in an error: search_vectors is not invoked, no result rows
\* (partial or fallback) are returned, and the caller gets an error
\* response instead of a result list.
C17_QueryEmbedFailureIsTerminal ==
    toolResult.gateway = "failed" =>
       /\ toolResult.status = "error"
       /\ toolResult.http = 500
       /\ ~toolResult.searched
       /\ toolResult.rows = <<>>
       /\ searchArgs = Null
       /\ matches = NoMatches

\* C17 witness: the gateway failed on the query of a search over a store
\* that holds ads
C17_Witness ==
    /\ toolResult.gateway = "failed"
    /\ ads # {}

\* C18: search_vectors returns an empty list, not an error, whenever no
\* stored row satisfies the filters it was given (an empty store included).
C18_EmptyWhenNothingMatches ==
    \A a \in searchArgs :
       (\A e \in embeddings :
           HasRow(ads, e.ad_id) => ~SatisfiesSupplied(e.ad_id, a.filters))
       => matches = [status |-> "ok", rows |-> <<>>]

(***************************************************************************)
(* Properties of malformed input, under Spec                               *)
(***************************************************************************)
\* the record's rooms field cannot be coerced to a number
MalformedRooms(item) ==
    item.shape = "bad_details" \/ (item.shape = "dict" /\ item.rooms_fmt # "number")

\* the snapshots the committed save_ads call wrote for normalized record k
SnapshotsWrittenFor(k) ==
    {j \in 1..Len(history) :
        /\ history[j].ad_id = ads_to_save[k].id
        /\ history[j].scraped_at = saveResult.now}

\* the malformed numeric fields of a saved record are stored as zero or None
SavedWithDefaults ==
    pc = "embed" =>
       \A k \in 1..Len(ads_to_save) :
          LET item == ads_to_save[k].original_data IN
          /\ item.price_fmt = "garbage" =>
                \E j \in SnapshotsWrittenFor(k) : history[j].price = Some(0)
          /\ MalformedRooms(item) =>
                \E j \in SnapshotsWrittenFor(k) : history[j].rooms \in {Null, Some(0)}

\* C19: a malformed numeric field never fails the record or the batch, on
\* either ingestion path: save_ads is never failed by the value of a field,
\* and a saved record with an unparseable price has history price 0, one
\* with uncoercible rooms has rooms zero or absent.
C19_MalformedNumberNeverFails ==
    /\ saveResult.cause # "data_error"
    /\ SavedWithDefaults

\* every record of the batch that normalizes without an error is in the
\* list handed to save_ads
GoodRecordsKept ==
    pc \in {"save", "embed"} =>
       \A k \in 1..Len(items) :
          (items[k].shape = "dict" /\ TruthyStr(items[k].id)) =>
             \E j \in 1..Len(ads_to_save) : ads_to_save[j].original_data = items[k]

\* C20: an error raised while normalizing one record does not reach the
\* batch: the ingestion call does not end by that error, whatever the shape
\* of the record, and the other records are still normalized and saved.
C20_NormalizationErrorSkipsRecord ==
    /\ ~raised
    /\ GoodRecordsKept

(***************************************************************************)
(* search_vectors on stored metadata, under SearchSpec                     *)
(***************************************************************************)
\* a number of the metadata as the claim reports it: 0 when null
ZeroWhenNull(o) == IF o = Null THEN 0 ELSE Val(o)

\* C30: search_vectors returns one entry for every row the query selects
\* and does not raise, whatever metadata ingestion stored: a price or rooms
\* that is null in the metadata is reported as 0.
C30_NullMetadataReportedAsZero ==
    \A a \in searchArgs :
       /\ matches.status = "ok"
       /\ Len(matches.rows)
             = Min(a.limit, Cardinality(Selected(ads, embeddings, a.filters)))
       /\ \A i \in 1..Len(matches.rows) : \E e \in embeddings :
             /\ e.ad_id = matches.rows[i].id
             /\ matches.rows[i].price = ZeroWhenNull(e.metadata.price)
             /\ matches.rows[i].rooms = ZeroWhenNull(e.metadata.rooms)

(***************************************************************************)
(* get_ads_without_embeddings, under BackfillSpec                          *)
(***************************************************************************)
\* C22: get_ads_without_embeddings(limit) returns at most `limit` ads, every
\* returned ad has no EmbeddingRecord at the time of the query, and an ad
\* that has an EmbeddingRecord is never returned.
C22_MissingEmbeddingQuery ==
    \A m \in missing :
       /\ Cardinality(m.rows) <= m.limit
       /\ m.rows \subseteq ads
       /\ \A r \in m.rows : ~\E e \in embeddings : e.ad_id = r.id
       /\ \A e \in embeddings : ~\E r \in m.rows : r.id = e.ad_id

\* C22 witness: the query returned `limit` ads of a store that holds more
\* ads without an embedding, and an ad with two EmbeddingRecords that it
\* did not return
C22_Witness ==
    \E m \in missing :
       /\ m.rows # {}
       /\ Cardinality(m.rows) = m.limit
       /\ \E r \in ads \ m.rows : ~\E e \in embeddings : e.ad_id = r.id
       /\ \E r \in ads \ m.rows :
             Cardinality({e \in embeddings : e.ad_id = r.id}) = 2

(***************************************************************************)
(* Overlapping create_segment calls, under SegmentSpec                     *)
(***************************************************************************)
\* both calls are over, neither was failed by the store for a reason of its
\* own, and both were made for the same search_url
BothCalledFor(u) ==
    \A p \in Callers :
       /\ segTx[p].state \in {"returned", "raised"}
       /\ segTx[p].cause # "store_error"
       /\ \E a \in segTx[p].args : a.search_url = u

\* one segment has the search_url, whatever the calls did
OneSegmentPerUrl ==
    \A u \in SegmentUrls :
       BothCalledFor(u) => Cardinality({g \in segments : g.search_url = u}) = 1

\* C24: create_segment behaves as one atomic conditional write: when two
\* calls with the same search_url run concurrently both return the same
\* segment id, neither raises, and one segment with that search_url exists.
C24_ConcurrentCreateSegment ==
    \A u \in SegmentUrls :
       BothCalledFor(u) =>
          /\ \A p \in Callers : segTx[p].state = "returned"
          /\ \A p, q \in Callers : segTx[p].returned = segTx[q].returned
          /\ Cardinality({g \in segments : g.search_url = u}) = 1

(***************************************************************************)
(* Tracked segments and their scrape task, under TrackSpec                 *)
(***************************************************************************)
\* C26: SegmentManager.create_segment returns a result or an error value:
\* for a city that does not resolve, or when the segment upsert fails, it
\* returns an error, creates no segment and submits no scrape task; the
\* scrape task is submitted only after the upsert succeeded, and the call
\* returns while the task has not run.
C26_TrackedSegmentResult ==
    [][\A p \in Callers :
          LET t == tracked'[p] IN
          /\ scrape'[p] # NoScrape => t.status = "ok"
          /\ (tracked[p].state # "returned" /\ t.state = "returned") =>
                /\ t.status \in {"ok", "error"}
                /\ t.tool = ToolAnswer(t.status)
                /\ (ResolveCity(Val(t.city)) = Null \/ t.cause = "upsert") =>
                      /\ t.status = "error"
                      /\ ~t.created
                      /\ segments' = segments
                      /\ scrape'[p] = NoScrape
                /\ t.status = "ok" =>
                      /\ \E g \in segments' :
                            Some(g.search_url) = t.url /\ Some(g.id) = t.segment_id
                      /\ scrape'[p].pc = "submitted"
                      /\ scrape'[p].url = t.url
                      /\ scrape'[p].rc = Null]_vars

\* C26 witness: the call of one caller failed at the upsert while the task
\* of the other caller's call was running; no task was submitted for it
C26_Witness ==
    \E p, q \in Callers :
       /\ tracked[p].state = "returned"
       /\ tracked[p].cause = "upsert"
       /\ scrape[p] = NoScrape
       /\ scrape[q].pc = "scraping"
       /\ segments # {}

\* the last non-empty line the scraper wrote is no report with an outputFile
BadReport(p) ==
    \E l \in scrape[p].last : ~JsonLoads(l) \/ ~HasOutputFile(l)

\* C29: in trigger_scrape the parser process is started only after the
\* scraper exited with return code 0 and the last non-empty line of its
\* output is a JSON report with an outputFile; a non-zero exit, a report
\* that does not parse or has no outputFile, or a failure to launch either
\* process starts no ingestion, and the task ends without raising.
C29_ParserAfterGoodReport ==
    \A p \in Callers :
       /\ scrape[p].pc \in {"none", "submitted", "scraping", "launch_parser",
                            "parsing", "done"}
       /\ scrape[p].parser # "none" =>
             /\ scrape[p].rc = Some(0)
             /\ scrape[p].last = Some("{outputFile: path}")
       /\ (scrape[p].pc = "done" /\ (scrape[p].rc # Some(0)
                                      \/ BadReport(p)
                                      \/ scrape[p].caught # "none")) =>
             scrape[p].parser = "none"
       /\ scrape[p].parser = "none" => tx[p] = NoTx

\* C29 witness: the parser ran after a scraper that exited with 0 and wrote
\* its report, and ingested the records of the file
C29_Witness ==
    \E p \in Callers :
       /\ scrape[p].pc = "done"
       /\ scrape[p].parser = "finished"
       /\ tx[p].state = "committed"
       /\ \E r \in ads : r.segment_id = tx[p].seg

(***************************************************************************)
(* Titles, under TitleSpec                                                 *)
(***************************************************************************)
\* the title the description gives: the description, or its first 100
\* characters and an ellipsis
TitleFrom(description) ==
    IF Len(description) <= TitleMax THEN description
    ELSE SubSeq(description, 1, TitleMax) \o Ellipsis

\* on the process_file path the title is derived from the description
ExtractorTitleDerived ==
    \A c \in titleCall :
       c.path = "process_file" => c.title = TitleFrom(c.description)

\* C25: on every ingestion path the title of an ad is derived from its
\* description: the description when it has at most 100 characters, else
\* its first 100 characters followed by an ellipsis.
C25_TitleFromDescription ==
    \A c \in titleCall : c.title = TitleFrom(c.description)

(***************************************************************************)
(* Deleting a segment, under DeleteSpec                                    *)
(***************************************************************************)
\* the ad row with its segment reference set to null when it is `id`
Detached(r, id) == [r EXCEPT !.segment_id = IF @ = Some(id) THEN Null ELSE @]

\* C23: deleting a segment sets the segment reference of every ad that
\* pointed to it to null and deletes no AdRecord, HistorySnapshot or
\* EmbeddingRecord (every other column of every ad stays as it was).
C23_DeleteSegmentSetsNull ==
    [][\A g \in segments \ segments' :
          /\ ads' = {Detached(r, g.id) : r \in ads}
          /\ Cardinality(ads') = Cardinality(ads)
          /\ \A r \in ads' : r.segment_id # Some(g.id)
          /\ history' = history
          /\ embeddings' = embeddings]_vars

\* C23 witness: an ad that ingest_json_file inserted under a segment has a
\* null segment reference, and still has its snapshot
C23_Witness ==
    \E r \in ads :
       /\ r.property_type = "unknown"
       /\ r.segment_id = Null
       /\ \E k \in 1..Len(history) : history[k].ad_id = r.id

(***************************************************************************)
(* Determinism of normalization and hashing, under Spec                    *)
(***************************************************************************)
\* an earlier ingestion call handed the gateway a document for the raw
\* record and path of normalized record `ad`: what it recorded
EarlierCallsOn(ad) ==
    {p \in embSrc[ad.id] : p.item = ad.original_data /\ p.path = path}

SavedBeforeEmbedded ==
    \A c \in lastCall :
       /\ saveResult.status = "ok"
       /\ HasRow(ads, c.ad_id)
       /\ \E k \in 1..Len(history) :
             /\ history[k].ad_id = c.ad_id
             /\ history[k].scraped_at = saveResult.now

\* every EmbeddingRecord and every HistorySnapshot has its AdRecord
ReferencesExist ==
    /\ \A e \in embeddings : HasRow(ads, e.ad_id)
    /\ \A k \in 1..Len(history) : HasRow(ads, history[k].ad_id)

\* C28: embedding follows durable persistence: the gateway is called for a
\* record only after the save_ads call of its batch has committed; when
\* save_ads fails the call makes no gateway call and no embedding upsert
\* (embedLog has one entry for each turn of the embedding loop);
\* every EmbeddingRecord and HistorySnapshot references an existing AdRecord.
C28_EmbeddingFollowsPersistence ==
    /\ SavedBeforeEmbedded
    /\ pc = "embed" => saveResult.status = "ok"
    /\ saveResult.status # "ok" => (lastCall = Null /\ embedLog = <<>>)
    /\ ReferencesExist

\* C28 witness: save_ads failed in a call that came after a call whose
\* record was saved and handed to the gateway; the failed call embedded
\* nothing
C28_Witness ==
    /\ saveResult.status = "failed"
    /\ pc = "idle"
    /\ ads_to_save # <<>>
    /\ history # <<>>
    /\ \E id \in AdIds : embSrc[id] # Null
    /\ lastCall = Null

(***************************************************************************)
(* Properties of overlapping ingestion, under ConcSpec                     *)
(***************************************************************************)
\* C11: the last_seen of a committed AdRecord never decreases, also when
\* two batches with the same ad id overlap and their transactions commit in
\* an order other than the one they started in.
C11_LastSeenMonotonic ==
    [][\A r \in ads : \A r2 \in ads' :
          r2.id = r.id => r2.last_seen >= r.last_seen]_vars

\* both overlapping calls have returned, each had its segment, and the
\* store failed neither for a reason of its own
BothReturned ==
    \A p \in Callers :
       /\ IngestOver(p)
       /\ tx[p].cause \notin {"store_error", "segment"}

\* the number of records of caller p's file with this id
RecordsOf(p, id) ==
    LET batch == NormalizeAll(tx[p].items) IN
    Cardinality({k \in 1..Len(batch) : batch[k].id = id})

\* the committed snapshots caller p's transaction wrote for this id
SnapshotsFrom(p, id) ==
    {k \in 1..Len(history) :
        history[k].ad_id = id /\ history[k].scraped_at = tx[p].now}

\* every record of either batch has its snapshot and each ad one AdRecord
AllSnapshotsPresent ==
    \A id \in {"a1", "a2"} :
       /\ \A p \in Callers :
             Cardinality(SnapshotsFrom(p, id)) = RecordsOf(p, id)
       /\ (\E p \in Callers : RecordsOf(p, id) > 0) =>
             Cardinality({r \in ads : r.id = id}) = 1

\* two overlapping calls that both committed lost no snapshot
CommittedCallsKeepSnapshots ==
    (\A p \in Callers : tx[p].state = "committed") => AllSnapshotsPresent

\* C16: when two batches with the same ad id are ingested concurrently no
\* snapshot is lost: once both calls have returned the ad has one snapshot
\* for each record of each batch and a single AdRecord, for every
\* interleaving of the two calls.
C16_NoSnapshotLost == BothReturned => AllSnapshotsPresent

====
